---- MODULE Spec2Model ----
(***************************************************************************)
(* A model of the terminal server: the per-tab session store and the       *)
(* 'command' handler of main.py, the command dispatcher and its built-in   *)
(* handlers (commands/command_handler.py), the natural-language translator *)
(* (utils/nlp_interpreter.py) and the history manager                      *)
(* (utils/history_manager.py).                                             *)
(*                                                                         *)
(* Python strings are TLA+ strings; a character is a string of length 1.   *)
(* The file system is a set of directories and a map from file paths to    *)
(* contents, both keyed by normalised absolute POSIX paths.                *)
(***************************************************************************)
EXTENDS Integers, Sequences, FiniteSets, TLC

VARIABLES
    TAB_DIRECTORIES,   \* main.py: tab id -> stored current directory
    dirs,              \* file system: the existing directories
    files,             \* file system: file path -> content
    popen,             \* the command lines handed to subprocess.Popen so far
    pc,                \* per handler thread: its position in handle_command
    req,               \* per handler thread: the event's data and the handler's locals
    emitted,           \* per handler thread: the events it emitted for its current event
    accepted,          \* number of 'command' events taken so far
    _lock,             \* history_manager._lock: "free", or the thread that holds it
    _history_cache,    \* history_manager._history_cache: tab id -> commands
    _full_history,     \* history_manager._full_history: the entries, oldest first
    history_file,      \* data/history.json: what json.load reads from it
    call               \* a direct call of the dispatcher or translator: inputs and result

vars == <<TAB_DIRECTORIES, dirs, files, popen, pc, req, emitted, accepted,
          _lock, _history_cache, _full_history, history_file, call>>

-----------------------------------------------------------------------------
(* Bounds of the model. *)

\* 'command' events taken in one behaviour
MaxEvents == 2

\* command lines run one after the other on one file system
MaxLines == 3

-----------------------------------------------------------------------------
(* Python str operations. *)

\* the character at position i, and "" past the ends
Ch(s, i) == IF i \in 1..Len(s) THEN SubSeq(s, i, i) ELSE ""

IsSpace(c) == c \in {" ", "\t", "\n", "\r"}

StartsWith(s, p) == Len(p) <= Len(s) /\ SubSeq(s, 1, Len(p)) = p

EndsWith(s, p) == Len(p) <= Len(s) /\ SubSeq(s, Len(s) - Len(p) + 1, Len(s)) = p

\* sub in s
Contains(s, sub) ==
    \E i \in 1..(Len(s) - Len(sub) + 1) : SubSeq(s, i, i + Len(sub) - 1) = sub

\* s.find(sub) + 1, and 0 when sub does not occur
Find(s, sub) ==
    LET hits == {i \in 1..(Len(s) - Len(sub) + 1) : SubSeq(s, i, i + Len(sub) - 1) = sub}
    IN  IF hits = {} THEN 0 ELSE CHOOSE i \in hits : \A j \in hits : i <= j

\* s.rfind(sub) + 1, and 0 when sub does not occur
RFind(s, sub) ==
    LET hits == {i \in 1..(Len(s) - Len(sub) + 1) : SubSeq(s, i, i + Len(sub) - 1) = sub}
    IN  IF hits = {} THEN 0 ELSE CHOOSE i \in hits : \A j \in hits : i >= j

UpperChars == "ABCDEFGHIJKLMNOPQRSTUVWXYZ"
LowerChars == "abcdefghijklmnopqrstuvwxyz"

LowerCh(c) ==
    LET k == Find(UpperChars, c) IN IF k = 0 THEN c ELSE Ch(LowerChars, k)

RECURSIVE Lower(_)
Lower(s) == IF s = "" THEN "" ELSE LowerCh(Ch(s, 1)) \o Lower(SubSeq(s, 2, Len(s)))

RECURSIVE LStrip(_)
LStrip(s) ==
    IF s # "" /\ IsSpace(Ch(s, 1)) THEN LStrip(SubSeq(s, 2, Len(s))) ELSE s

RECURSIVE RStrip(_)
RStrip(s) ==
    IF s # "" /\ IsSpace(Ch(s, Len(s))) THEN RStrip(SubSeq(s, 1, Len(s) - 1)) ELSE s

Strip(s) == RStrip(LStrip(s))

\* The length of the longest prefix of s without white space.
RECURSIVE WordLen(_)
WordLen(s) ==
    IF s = "" \/ IsSpace(Ch(s, 1)) THEN 0 ELSE 1 + WordLen(SubSeq(s, 2, Len(s)))

\* s.split(): the maximal runs of non-space characters, in order
RECURSIVE Split(_)
Split(s) ==
    LET t == LStrip(s)
        n == WordLen(t)
    IN  IF t = "" THEN <<>>
        ELSE <<SubSeq(t, 1, n)>> \o Split(SubSeq(t, n + 1, Len(t)))

\* s.split(sep): the pieces between the occurrences of the non-empty sep
RECURSIVE SplitOn(_, _)
SplitOn(s, sep) ==
    LET k == Find(s, sep)
    IN  IF k = 0 THEN <<s>>
        ELSE <<SubSeq(s, 1, k - 1)>> \o SplitOn(SubSeq(s, k + Len(sep), Len(s)), sep)

\* sep.join(parts)
RECURSIVE Join(_, _)
Join(parts, sep) ==
    IF parts = <<>> THEN ""
    ELSE IF Len(parts) = 1 THEN parts[1]
    ELSE parts[1] \o sep \o Join(Tail(parts), sep)

\* s.replace(old, new) for a non-empty old
RECURSIVE Replace(_, _, _)
Replace(s, old, new) ==
    LET k == Find(s, old)
    IN  IF k = 0 THEN s
        ELSE SubSeq(s, 1, k - 1) \o new \o Replace(SubSeq(s, k + Len(old), Len(s)), old, new)

IsFlag(arg) == StartsWith(arg, "-")
NotFlag(arg) == ~IsFlag(arg)

InSeq(x, seq) == \E i \in 1..Len(seq) : seq[i] = x

\* a < b in Python's string order, for the characters the model uses
CharOrder == " !#$%&'+,-./0123456789:;<=>?@ABCDEFGHIJKLMNOPQRSTUVWXYZ[]^_abcdefghijklmnopqrstuvwxyz{|}~"

RECURSIVE StrLess(_, _)
StrLess(a, b) ==
    IF b = "" THEN FALSE
    ELSE IF a = "" THEN TRUE
    ELSE IF Ch(a, 1) = Ch(b, 1) THEN StrLess(SubSeq(a, 2, Len(a)), SubSeq(b, 2, Len(b)))
    ELSE Find(CharOrder, Ch(a, 1)) < Find(CharOrder, Ch(b, 1))

\* sorted(S) for a set of strings
RECURSIVE SortedStr(_)
SortedStr(S) ==
    IF S = {} THEN <<>>
    ELSE LET m == CHOOSE x \in S : \A y \in S \ {x} : StrLess(x, y)
         IN  <<m>> \o SortedStr(S \ {m})

-----------------------------------------------------------------------------
(* os.path on a POSIX host, and the file system calls the handlers make.    *)
(* An operation on the file system takes the directories ds and the files  *)
(* fs and returns the new ones with err, the OSError it raised ("" when it *)
(* raised none).                                                           *)

\* os.path.expanduser("~"): the home directory of the user running the server
HOME == "/h"

isabs(p) == StartsWith(p, "/")

\* os.path.join(a, b)
path_join(a, b) ==
    IF StartsWith(b, "/") THEN b
    ELSE IF a = "" \/ EndsWith(a, "/") THEN a \o b
    ELSE a \o "/" \o b

\* the loop of posixpath.normpath over the components
RECURSIVE NormComps(_, _, _)
NormComps(comps, new_comps, rooted) ==
    IF comps = <<>> THEN new_comps
    ELSE LET comp == Head(comps)
             rest == Tail(comps)
         IN  IF comp \in {"", "."} THEN NormComps(rest, new_comps, rooted)
             ELSE IF \/ comp # ".."
                     \/ (~rooted /\ new_comps = <<>>)
                     \/ (new_comps # <<>> /\ new_comps[Len(new_comps)] = "..")
                  THEN NormComps(rest, Append(new_comps, comp), rooted)
             ELSE IF new_comps # <<>>
                  THEN NormComps(rest, SubSeq(new_comps, 1, Len(new_comps) - 1), rooted)
             ELSE NormComps(rest, new_comps, rooted)

\* the leading slashes normpath keeps: two when the path begins with
\* exactly two, else one for an absolute path
Slashes(path) ==
    IF ~StartsWith(path, "/") THEN ""
    ELSE IF StartsWith(path, "//") /\ ~StartsWith(path, "///") THEN "//"
    ELSE "/"

OrDot(path) == IF path = "" THEN "." ELSE path

NormFrom(path, slashes) ==
    OrDot(slashes \o Join(NormComps(SplitOn(path, "/"), <<>>, slashes # ""), "/"))

\* os.path.normpath(path)
normpath(path) == IF path = "" THEN "." ELSE NormFrom(path, Slashes(path))

RECURSIVE RStripSlash(_)
RStripSlash(s) ==
    IF s # "" /\ Ch(s, Len(s)) = "/" THEN RStripSlash(SubSeq(s, 1, Len(s) - 1)) ELSE s

\* head.rstrip('/') unless head is all slashes
HeadOf(head) == IF RStripSlash(head) = "" THEN head ELSE RStripSlash(head)

\* os.path.dirname(p)
dirname(p) == HeadOf(SubSeq(p, 1, RFind(p, "/")))

\* os.path.basename(p)
basename(p) == SubSeq(p, RFind(p, "/") + 1, Len(p))

\* the entry named n of the directory d
Child(d, n) == IF d = "/" THEN "/" \o n ELSE d \o "/" \o n

\* p lies below the directory d
IsUnder(p, d) == p # d /\ (d = "/" \/ StartsWith(p, d \o "/"))

\* The kernel's walk from the directory cur along comps: the entry reached, or
\* "" when a component is missing or is looked up in something that is no
\* directory.
RECURSIVE Walk(_, _, _, _)
Walk(ds, fs, cur, comps) ==
    IF comps = <<>> THEN cur
    ELSE IF cur \notin ds THEN ""
    ELSE IF Head(comps) \in {"", "."} THEN Walk(ds, fs, cur, Tail(comps))
    ELSE IF Head(comps) = ".." THEN Walk(ds, fs, dirname(cur), Tail(comps))
    ELSE IF Child(cur, Head(comps)) \in ds \union DOMAIN fs
         THEN Walk(ds, fs, Child(cur, Head(comps)), Tail(comps))
    ELSE ""

\* the entry an absolute path names, or "" when it names none
Resolve(ds, fs, p) ==
    IF ~isabs(p) THEN "" ELSE Walk(ds, fs, "/", SplitOn(p, "/"))

exists(ds, fs, p) == Resolve(ds, fs, p) # ""
isdir(ds, fs, p) == Resolve(ds, fs, p) \in ds
isfile(ds, fs, p) == Resolve(ds, fs, p) \in DOMAIN fs

\* the names in the directory d
ListDir(ds, fs, d) == {basename(e) : e \in {x \in ds \union DOMAIN fs : x # "/" /\ dirname(x) = d}}

\* the function f without the arguments in S
Without(f, S) == [x \in DOMAIN f \ S |-> f[x]]

\* the function f with f[x] = v
With(f, x, v) == [y \in DOMAIN f \union {x} |-> IF y = x THEN v ELSE f[y]]

NoErr(ds, fs) == [dirs |-> ds, files |-> fs, err |-> ""]
Err(ds, fs, e) == [dirs |-> ds, files |-> fs, err |-> e]

ENOENT(p) == "[Errno 2] No such file or directory: '" \o p \o "'"
EEXIST(p) == "[Errno 17] File exists: '" \o p \o "'"
ENOTDIR(p) == "[Errno 20] Not a directory: '" \o p \o "'"
EISDIR(p) == "[Errno 21] Is a directory: '" \o p \o "'"
ENOTEMPTY(p) == "[Errno 39] Directory not empty: '" \o p \o "'"
EBUSY(p) == "[Errno 16] Device or resource busy: '" \o p \o "'"
EINVAL(p) == "[Errno 22] Invalid argument: '" \o p \o "'"

IsENOENT(e) == StartsWith(e, "[Errno 2] ")
IsEEXIST(e) == StartsWith(e, "[Errno 17] ")

\* the path of the directory that holds the last component of p; a path
\* that ends in "/" names the component before the slashes
Holder(p) == IF dirname(RStripSlash(p)) = "" THEN "/" ELSE dirname(RStripSlash(p))

DirOrNone(ds, d) == IF d \in ds THEN d ELSE ""

\* The directory that holds the last component of p, or "" when the walk to
\* it fails.
ParentOf(ds, fs, p) == DirOrNone(ds, Resolve(ds, fs, Holder(p)))

LastOf(p) == basename(RStripSlash(p))

\* why the walk to the directory holding p's last component fails
ParentErr(ds, fs, p) ==
    IF exists(ds, fs, Holder(p)) \/ exists(ds, fs, RStripSlash(Holder(p)))
    THEN ENOTDIR(p) ELSE ENOENT(p)

\* the error of a system call on p when p names nothing
Missing(ds, fs, p) ==
    IF ParentOf(ds, fs, p) = "" THEN ParentErr(ds, fs, p) ELSE ENOENT(p)

\* os.mkdir(p) in the directory dp that is to hold it
MkdirIn(ds, fs, p, dp) ==
    IF exists(ds, fs, p) \/ RStripSlash(p) = "" THEN Err(ds, fs, EEXIST(p))
    ELSE IF dp = "" THEN Err(ds, fs, ParentErr(ds, fs, p))
    ELSE IF LastOf(p) \in {".", ".."} THEN Err(ds, fs, EEXIST(p))
    ELSE NoErr(ds \union {Child(dp, LastOf(p))}, fs)

\* os.mkdir(p)
os_mkdir(ds, fs, p) == MkdirIn(ds, fs, p, ParentOf(ds, fs, p))

\* the end of os.makedirs: the error of mkdir is dropped when exist_ok is
\* set and the name is a directory
MadeOr(made, up, name, exist_ok) ==
    IF made.err # "" /\ exist_ok /\ isdir(up.dirs, up.files, name)
    THEN NoErr(up.dirs, up.files)
    ELSE made

\* os.makedirs after the directories above name: up is what making them
\* came to, and entered tells that they were missing
MakeLeaf(up, entered, tail, name, exist_ok) ==
    IF up.err # "" /\ ~IsEEXIST(up.err) THEN up
    ELSE IF entered /\ tail = "." THEN NoErr(up.dirs, up.files)
    ELSE MadeOr(os_mkdir(up.dirs, up.files, name), up, name, exist_ok)

RECURSIVE os_makedirs(_, _, _, _)

\* os.makedirs for head, tail = os.path.split(name), split once more when
\* name ends in a slash
MakeUnder(ds, fs, head, tail, name, exist_ok) ==
    IF head # "" /\ tail # "" /\ ~exists(ds, fs, head)
    THEN MakeLeaf(os_makedirs(ds, fs, head, exist_ok), TRUE, tail, name, exist_ok)
    ELSE MakeLeaf(NoErr(ds, fs), FALSE, tail, name, exist_ok)

\* an os.makedirs that makes the directories above name only when exist_ok
\* is set
os_makedirs_p(ds, fs, name, exist_ok) ==
    IF ~exist_ok THEN os_mkdir(ds, fs, name)
    ELSE IF basename(name) = ""
    THEN MakeUnder(ds, fs, dirname(dirname(name)), basename(dirname(name)), name, exist_ok)
    ELSE MakeUnder(ds, fs, dirname(name), basename(name), name, exist_ok)

\* os.makedirs(name, exist_ok=exist_ok)
os_makedirs(ds, fs, name, exist_ok) ==
    IF basename(name) = ""
    THEN MakeUnder(ds, fs, dirname(dirname(name)), basename(dirname(name)), name, exist_ok)
    ELSE MakeUnder(ds, fs, dirname(name), basename(name), name, exist_ok)

RmdirAt(ds, fs, p, d) ==
    IF d = "" THEN Err(ds, fs, Missing(ds, fs, p))
    ELSE IF d \notin ds THEN Err(ds, fs, ENOTDIR(p))
    ELSE IF LastOf(p) = "." THEN Err(ds, fs, EINVAL(p))
    ELSE IF ListDir(ds, fs, d) # {} \/ LastOf(p) = ".." THEN Err(ds, fs, ENOTEMPTY(p))
    ELSE IF d = "/" THEN Err(ds, fs, EBUSY(p))
    ELSE NoErr(ds \ {d}, fs)

\* os.rmdir(p)
os_rmdir(ds, fs, p) == RmdirAt(ds, fs, p, Resolve(ds, fs, p))

RemoveAt(ds, fs, p, f) ==
    IF f = "" THEN Err(ds, fs, Missing(ds, fs, p))
    ELSE IF f \in ds THEN Err(ds, fs, EISDIR(p))
    ELSE NoErr(ds, Without(fs, {f}))

\* os.remove(p)
os_remove(ds, fs, p) == RemoveAt(ds, fs, p, Resolve(ds, fs, p))

\* what is left when everything below the directory d is gone
Outside(S, d) == {x \in S : ~IsUnder(x, d)}

RmtreeAt(ds, fs, p, d) ==
    IF d = "" THEN Err(ds, fs, ENOENT(p))
    ELSE IF d \notin ds THEN Err(ds, fs, ENOTDIR(p))
    ELSE IF d = "/" THEN Err(Outside(ds, d), Without(fs, DOMAIN fs \ Outside(DOMAIN fs, d)), EBUSY(p))
    ELSE NoErr(Outside(ds, d) \ {d}, Without(fs, DOMAIN fs \ Outside(DOMAIN fs, d)))

\* shutil.rmtree(p) of a directory: everything below it goes, then the
\* directory itself, which the kernel refuses for the root.
shutil_rmtree(ds, fs, p) == RmtreeAt(ds, fs, p, Resolve(ds, fs, p))

\* where the entry x at or below s is after s has become to
Moved(x, s, to) == IF x = s THEN to ELSE to \o SubSeq(x, Len(s) + 1, Len(x))

\* the files fs with those below s at their places below to
MovedFiles(fs, s, to) ==
    [y \in {IF IsUnder(x, s) THEN Moved(x, s, to) ELSE x : x \in DOMAIN fs} |->
        IF \E x \in DOMAIN fs : IsUnder(x, s) /\ Moved(x, s, to) = y
        THEN fs[CHOOSE x \in DOMAIN fs : IsUnder(x, s) /\ Moved(x, s, to) = y]
        ELSE fs[y]]

\* os.rename of the entry s to the place to: d is what dst names now
RenameTo(ds, fs, src, dst, s, d, to) ==
    IF s = to THEN NoErr(ds, fs)
    ELSE IF s \in ds
    THEN IF d \in DOMAIN fs THEN Err(ds, fs, ENOTDIR(src))
         ELSE IF d \in ds /\ ListDir(ds, fs, d) # {} THEN Err(ds, fs, ENOTEMPTY(src))
         ELSE IF s = "/" THEN Err(ds, fs, EBUSY(src))
         ELSE IF IsUnder(to, s) \/ LastOf(dst) \in {".", ".."} THEN Err(ds, fs, EINVAL(src))
         ELSE NoErr({IF x = s \/ IsUnder(x, s) THEN Moved(x, s, to) ELSE x : x \in ds},
                    MovedFiles(fs, s, to))
    ELSE IF d \in ds THEN Err(ds, fs, EISDIR(src))
         ELSE NoErr(ds, With(Without(fs, {s}), to, fs[s]))

RenameAt(ds, fs, src, dst, s, dp, d) ==
    IF s = "" THEN Err(ds, fs, ENOENT(src))
    ELSE IF dp = "" THEN Err(ds, fs, ParentErr(ds, fs, dst))
    ELSE RenameTo(ds, fs, src, dst, s, d, IF d # "" THEN d ELSE Child(dp, LastOf(dst)))

\* os.rename(src, dst)
os_rename(ds, fs, src, dst) ==
    RenameAt(ds, fs, src, dst, Resolve(ds, fs, src), ParentOf(ds, fs, dst), Resolve(ds, fs, dst))

\* the files fs with copies of those of the set from, each at At[x]
CopiedFiles(fs, from, At(_)) ==
    [y \in DOMAIN fs \union {At(x) : x \in from} |->
        IF \E x \in from : At(x) = y THEN fs[CHOOSE x \in from : At(x) = y] ELSE fs[y]]

CopyTreeTo(ds, fs, s, made, to) ==
    NoErr(made.dirs \union {Moved(x, s, to) : x \in {y \in ds : IsUnder(y, s)}},
          CopiedFiles(fs, {x \in DOMAIN fs : IsUnder(x, s)}, LAMBDA x : Moved(x, s, to)))

CopyTreeAt(ds, fs, dst, s, made) ==
    IF made.err # "" THEN made ELSE CopyTreeTo(ds, fs, s, made, Resolve(made.dirs, fs, dst))

\* shutil.copytree(src, dst) of a directory into a destination that must not exist
shutil_copytree(ds, fs, src, dst) ==
    CopyTreeAt(ds, fs, dst, Resolve(ds, fs, src), os_makedirs(ds, fs, dst, FALSE))

CopyFileTo(ds, fs, src, dst2, s, d, dp) ==
    IF s # "" /\ s = d
    THEN Err(ds, fs, "'" \o src \o "' and '" \o dst2 \o "' are the same file")
    ELSE IF s = "" THEN Err(ds, fs, ENOENT(src))
    ELSE IF s \in ds THEN Err(ds, fs, EISDIR(src))
    ELSE IF d \in ds THEN Err(ds, fs, EISDIR(dst2))
    ELSE IF dp = "" THEN Err(ds, fs, ParentErr(ds, fs, dst2))
    ELSE IF d = "" /\ (LastOf(dst2) # basename(dst2)) THEN Err(ds, fs, EISDIR(dst2))
    ELSE NoErr(ds, With(fs, IF d # "" THEN d ELSE Child(dp, LastOf(dst2)), fs[s]))

CopyFileAt(ds, fs, src, dst2) ==
    CopyFileTo(ds, fs, src, dst2, Resolve(ds, fs, src), Resolve(ds, fs, dst2),
               ParentOf(ds, fs, dst2))

\* shutil.copy2(src, dst) of a file
shutil_copy2(ds, fs, src, dst) ==
    CopyFileAt(ds, fs, src, IF isdir(ds, fs, dst) THEN path_join(dst, basename(src)) ELSE dst)

\* the end of shutil.move after a copy: the source is removed
MoveRemove(copied, src, is_dir) ==
    IF copied.err # "" THEN copied
    ELSE IF is_dir THEN shutil_rmtree(copied.dirs, copied.files, src)
    ELSE os_remove(copied.dirs, copied.files, src)

\* shutil.move once os.rename has raised
MoveCopy(ds, fs, src, dst, real_dst) ==
    IF ~isdir(ds, fs, src)
    THEN MoveRemove(shutil_copy2(ds, fs, src, real_dst), src, FALSE)
    ELSE IF StartsWith(normpath(dst) \o "/", normpath(src) \o "/")
    THEN Err(ds, fs, "Cannot move a directory '" \o src \o "' into itself '" \o dst \o "'.")
    ELSE MoveRemove(shutil_copytree(ds, fs, src, real_dst), src, TRUE)

MoveRenamed(renamed, ds, fs, src, dst, real_dst) ==
    IF renamed.err = "" THEN renamed ELSE MoveCopy(ds, fs, src, dst, real_dst)

MoveTo(ds, fs, src, dst, into, real_dst) ==
    IF into /\ exists(ds, fs, real_dst)
    THEN Err(ds, fs, "Destination path '" \o real_dst \o "' already exists")
    ELSE MoveRenamed(os_rename(ds, fs, src, real_dst), ds, fs, src, dst, real_dst)

MoveInto(ds, fs, src, dst, into) ==
    MoveTo(ds, fs, src, dst, into,
           IF into THEN path_join(dst, basename(RStripSlash(src))) ELSE dst)

\* src and dst name the same entry
SameFile(s, d) == s # "" /\ s = d

\* shutil.move(src, dst)
shutil_move(ds, fs, src, dst) ==
    MoveInto(ds, fs, src, dst,
             isdir(ds, fs, dst) /\ ~SameFile(Resolve(ds, fs, src), Resolve(ds, fs, dst)))

-----------------------------------------------------------------------------
(* The built-in handlers. A handler takes the directories ds and the files *)
(* fs and returns its output out, the new directories and files, and exc,  *)
(* the message of the exception it let escape ("" when it returned).       *)

Ret(out, ds, fs) == [out |-> out, exc |-> "", dirs |-> ds, files |-> fs]
Raise(msg, ds, fs) == [out |-> "", exc |-> msg, dirs |-> ds, files |-> fs]

\* the path a handler acts on for the operand path
FullPath(path, current_dir) ==
    IF isabs(path) THEN path ELSE path_join(current_dir, path)

\* [arg for arg in args if not arg.startswith('-')]
Operands(args) == SelectSeq(args, NotFlag)

\* a handle_pwd that answers with the home directory whatever the tab's
\* directory is
handle_pwd_home(current_dir) == HOME

handle_pwd(current_dir) == current_dir

handle_echo(args) == Join(args, " ")

RECURSIVE Repeat(_, _)
Repeat(s, n) == IF n = 0 THEN "" ELSE s \o Repeat(s, n - 1)

ClearLines == 50

handle_clear == Repeat("\n", ClearLines)

handle_exit == "Exiting terminal..."

\* a handle_cd that reports every failure as a missing path
CdToOneCause(path, new_dir, ds, fs) ==
    IF ~isdir(ds, fs, new_dir)
    THEN Raise("cd: " \o path \o ": No such file or directory", ds, fs)
    ELSE Ret(new_dir, ds, fs)

\* handle_cd for a path that is none of "..", "." and "~"
CdTo(path, new_dir, ds, fs) ==
    IF ~exists(ds, fs, new_dir)
    THEN Raise("cd: " \o path \o ": No such file or directory", ds, fs)
    ELSE IF ~isdir(ds, fs, new_dir)
    THEN Raise("cd: " \o path \o ": Not a directory", ds, fs)
    ELSE Ret(new_dir, ds, fs)

\* handle_cd returns the new directory in out
handle_cd(args, current_dir, ds, fs) ==
    IF args = <<>> THEN Ret(HOME, ds, fs)
    ELSE IF args[1] = ".." THEN Ret(dirname(current_dir), ds, fs)
    ELSE IF args[1] = "." THEN Ret(current_dir, ds, fs)
    ELSE IF args[1] = "~" THEN Ret(HOME, ds, fs)
    ELSE CdTo(args[1], normpath(FullPath(args[1], current_dir)), ds, fs)

\* the result line of handle_mkdir for one operand
\* a result line that reports an existing directory as created
MkdirLineQuiet(made, path, new_dir) ==
    IF made.err = "" \/ IsEEXIST(made.err) THEN "Directory created: " \o new_dir
    ELSE "mkdir: error creating '" \o path \o "': " \o made.err

MkdirLine(made, path, new_dir) ==
    IF made.err = "" THEN "Directory created: " \o new_dir
    ELSE IF IsEEXIST(made.err)
    THEN "mkdir: cannot create directory '" \o path \o "': File exists"
    ELSE "mkdir: error creating '" \o path \o "': " \o made.err

RECURSIVE MkdirLoop(_, _, _, _, _, _)

MkdirStep(made, paths, current_dir, create_parents, results, new_dir) ==
    MkdirLoop(Tail(paths), current_dir, create_parents,
              Append(results, MkdirLine(made, Head(paths), new_dir)), made.dirs, made.files)

MkdirAt(paths, current_dir, create_parents, results, ds, fs, new_dir) ==
    MkdirStep(os_makedirs(ds, fs, new_dir, create_parents),
              paths, current_dir, create_parents, results, new_dir)

\* the loop of handle_mkdir over the operands; results holds the lines so far
MkdirLoop(paths, current_dir, create_parents, results, ds, fs) ==
    IF paths = <<>> THEN Ret(Join(results, "\n"), ds, fs)
    ELSE MkdirAt(paths, current_dir, create_parents, results, ds, fs,
                 FullPath(Head(paths), current_dir))

handle_mkdir(args, current_dir, ds, fs) ==
    IF args = <<>> THEN Ret("mkdir: missing operand", ds, fs)
    ELSE IF Operands(args) = <<>> THEN Ret("mkdir: missing operand", ds, fs)
    ELSE MkdirLoop(Operands(args), current_dir, InSeq("-p", args), <<>>, ds, fs)

RmdirResult(gone, path, dir_path, ds, fs) ==
    IF gone.err = "" THEN Ret("Directory removed: " \o dir_path, gone.dirs, gone.files)
    ELSE IF IsENOENT(gone.err)
    THEN Ret("rmdir: failed to remove '" \o path \o "': No such file or directory", ds, fs)
    ELSE Ret("rmdir: failed to remove '" \o path \o "': Directory not empty", ds, fs)

RmdirAtPath(path, dir_path, ds, fs) ==
    RmdirResult(os_rmdir(ds, fs, dir_path), path, dir_path, ds, fs)

handle_rmdir(args, current_dir, ds, fs) ==
    IF args = <<>> THEN Ret("rmdir: missing operand", ds, fs)
    ELSE RmdirAtPath(args[1], FullPath(args[1], current_dir), ds, fs)

\* result lines that report a missing path whether or not force is set
RmLinesLoud(gone, is_dir, recursive, force, path, full_path) ==
    IF gone.err # ""
    THEN IF IsENOENT(gone.err)
         THEN <<"rm: cannot remove '" \o path \o "': No such file or directory">>
         ELSE <<"rm: error removing '" \o path \o "': " \o gone.err>>
    ELSE IF is_dir
    THEN IF recursive THEN <<"Removed directory: " \o full_path>>
         ELSE <<"rm: cannot remove '" \o path \o "': Is a directory">>
    ELSE <<"Removed file: " \o full_path>>

\* the result lines of handle_rm for one operand
RmLines(gone, is_dir, recursive, force, path, full_path) ==
    IF gone.err # ""
    THEN IF IsENOENT(gone.err)
         THEN IF force THEN <<>>
              ELSE <<"rm: cannot remove '" \o path \o "': No such file or directory">>
         ELSE <<"rm: error removing '" \o path \o "': " \o gone.err>>
    ELSE IF is_dir
    THEN IF recursive THEN <<"Removed directory: " \o full_path>>
         ELSE <<"rm: cannot remove '" \o path \o "': Is a directory">>
    ELSE <<"Removed file: " \o full_path>>

\* what handle_rm does to the file system for one operand
RmGone(ds, fs, full_path, is_dir, recursive) ==
    IF is_dir
    THEN IF recursive THEN shutil_rmtree(ds, fs, full_path) ELSE NoErr(ds, fs)
    ELSE os_remove(ds, fs, full_path)

RECURSIVE RmLoop(_, _, _, _, _, _, _)

RmStep(gone, paths, current_dir, recursive, force, results, is_dir, full_path) ==
    RmLoop(Tail(paths), current_dir, recursive, force,
           results \o RmLines(gone, is_dir, recursive, force, Head(paths), full_path),
           gone.dirs, gone.files)

RmAt(paths, current_dir, recursive, force, results, ds, fs, full_path, is_dir) ==
    RmStep(RmGone(ds, fs, full_path, is_dir, recursive),
           paths, current_dir, recursive, force, results, is_dir, full_path)

RmPath(paths, current_dir, recursive, force, results, ds, fs, full_path) ==
    RmAt(paths, current_dir, recursive, force, results, ds, fs, full_path,
         isdir(ds, fs, full_path))

\* a loop that ends after the first operand that is not removed
RmLoopUntilError(paths, current_dir, recursive, force, results, ds, fs) ==
    IF paths = <<>> \/ (results # <<>> /\ ~StartsWith(results[Len(results)], "Removed "))
    THEN Ret(Join(results, "\n"), ds, fs)
    ELSE RmPath(paths, current_dir, recursive, force, results, ds, fs,
                FullPath(Head(paths), current_dir))

\* the loop of handle_rm over the operands
RmLoop(paths, current_dir, recursive, force, results, ds, fs) ==
    IF paths = <<>> THEN Ret(Join(results, "\n"), ds, fs)
    ELSE RmPath(paths, current_dir, recursive, force, results, ds, fs,
                FullPath(Head(paths), current_dir))

handle_rm(args, current_dir, ds, fs) ==
    IF args = <<>> THEN Ret("rm: missing operand", ds, fs)
    ELSE IF Operands(args) = <<>> THEN Ret("rm: missing operand", ds, fs)
    ELSE RmLoop(Operands(args), current_dir,
                InSeq("-r", args) \/ InSeq("-rf", args),
                InSeq("-f", args) \/ InSeq("-rf", args), <<>>, ds, fs)

IndexError == "list index out of range"

MvResult(moved, source, source_path, dest_path) ==
    IF moved.err = ""
    THEN Ret("Moved: " \o source_path \o " -> " \o dest_path, moved.dirs, moved.files)
    ELSE IF IsENOENT(moved.err)
    THEN Ret("mv: cannot stat '" \o source \o "': No such file or directory",
             moved.dirs, moved.files)
    ELSE Ret("mv: error: " \o moved.err, moved.dirs, moved.files)

MvTo(source, source_path, dest_path, ds, fs) ==
    MvResult(shutil_move(ds, fs, source_path, dest_path), source, source_path, dest_path)

\* a destination that is a directory takes a source that is none under
\* the source's name
MvFrom(source, source_path, dest_path, ds, fs) ==
    MvTo(source, source_path,
         IF isdir(ds, fs, dest_path) /\ ~isdir(ds, fs, source_path)
         THEN path_join(dest_path, basename(source_path))
         ELSE dest_path,
         ds, fs)

MvPaths(paths, current_dir, ds, fs) ==
    IF paths = <<>> THEN Raise(IndexError, ds, fs)
    ELSE IF Len(paths) < 2
    THEN Ret("mv: missing destination file operand after '" \o paths[1] \o "'", ds, fs)
    ELSE MvFrom(paths[1], FullPath(paths[1], current_dir), FullPath(paths[2], current_dir), ds, fs)

handle_mv(args, current_dir, ds, fs) ==
    IF Len(args) < 2 THEN Ret("mv: missing file operand", ds, fs)
    ELSE MvPaths(Operands(args), current_dir, ds, fs)

\* where the entry x at or below s is copied to when s is copied onto to
Merged(x, s, to) ==
    IF x = s THEN to ELSE Child(to, SubSeq(x, Len(Child(s, "")) + 1, Len(x)))

MergeTo(ds, fs, dst, s, made, to) ==
    IF \/ \E x \in ds : IsUnder(x, s) /\ Merged(x, s, to) \in DOMAIN fs
       \/ \E x \in DOMAIN fs : IsUnder(x, s) /\ Merged(x, s, to) \in made.dirs
    THEN Err(made.dirs, fs, EEXIST(dst))
    ELSE NoErr(made.dirs \union {Merged(x, s, to) : x \in {y \in ds : IsUnder(y, s)}},
               CopiedFiles(fs, {x \in DOMAIN fs : IsUnder(x, s)}, LAMBDA x : Merged(x, s, to)))

MergeAt(ds, fs, dst, s, made) ==
    IF made.err # "" THEN made ELSE MergeTo(ds, fs, dst, s, made, Resolve(made.dirs, fs, dst))

\* shutil.copytree(src, dst, dirs_exist_ok=True): the tree below src merged
\* into dst. A directory of src that meets a file of dst stops the copy.
shutil_mergetree(ds, fs, src, dst) ==
    MergeAt(ds, fs, dst, Resolve(ds, fs, src), os_makedirs(ds, fs, dst, TRUE))

CpTreeResult(tree, source_path, dest_path) ==
    IF tree.err = ""
    THEN Ret("Copied directory: " \o source_path \o " -> " \o dest_path, tree.dirs, tree.files)
    ELSE Ret("cp: error: " \o tree.err, tree.dirs, tree.files)

CpFileResult(copied, source, source_path, dest_path, ds, fs) ==
    IF copied.err = ""
    THEN Ret("Copied file: " \o source_path \o " -> " \o dest_path, copied.dirs, copied.files)
    ELSE IF IsENOENT(copied.err)
    THEN Ret("cp: cannot stat '" \o source \o "': No such file or directory", ds, fs)
    ELSE Ret("cp: error: " \o copied.err, ds, fs)

CpFile(source, source_path, dest_path, ds, fs) ==
    CpFileResult(shutil_copy2(ds, fs, source_path, dest_path), source, source_path, dest_path,
                 ds, fs)

\* handle_cp for the entry dest that the destination names ("" for none)
CpTo(source, destination, source_path, dest_path, dest, recursive, ds, fs) ==
    IF isdir(ds, fs, source_path)
    THEN IF ~recursive
         THEN Ret("cp: -r not specified; omitting directory '" \o source \o "'", ds, fs)
         ELSE IF dest # "" /\ dest \notin ds
         THEN Ret("cp: cannot overwrite non-directory '" \o destination
                  \o "' with directory '" \o source \o "'", ds, fs)
         ELSE CpTreeResult(shutil_mergetree(ds, fs, source_path, dest_path), source_path, dest_path)
    ELSE CpFile(source, source_path,
                IF dest \in ds THEN path_join(dest_path, basename(source_path)) ELSE dest_path,
                ds, fs)

CpFrom(source, destination, source_path, dest_path, recursive, ds, fs) ==
    CpTo(source, destination, source_path, dest_path, Resolve(ds, fs, dest_path), recursive,
         ds, fs)

CpPaths(paths, current_dir, recursive, ds, fs) ==
    IF paths = <<>> THEN Raise(IndexError, ds, fs)
    ELSE IF Len(paths) < 2
    THEN Ret("cp: missing destination file operand after '" \o paths[1] \o "'", ds, fs)
    ELSE CpFrom(paths[1], paths[2], FullPath(paths[1], current_dir),
                FullPath(paths[2], current_dir), recursive, ds, fs)

handle_cp(args, current_dir, ds, fs) ==
    IF Len(args) < 2 THEN Ret("cp: missing file operand", ds, fs)
    ELSE CpPaths(Operands(args), current_dir, InSeq("-r", args) \/ InSeq("-R", args), ds, fs)

\* the result line of handle_cat for the entry f that file_path names
CatAt(path, file_path, f, ds, fs) ==
    IF f \in ds THEN "cat: " \o path \o ": Is a directory"
    ELSE IF f \in DOMAIN fs THEN fs[f]
    ELSE IF IsENOENT(Missing(ds, fs, file_path))
    THEN "cat: " \o path \o ": No such file or directory"
    ELSE "cat: " \o path \o ": " \o Missing(ds, fs, file_path)

CatPath(path, file_path, ds, fs) == CatAt(path, file_path, Resolve(ds, fs, file_path), ds, fs)

\* the result line of handle_cat for one argument
CatLine(path, current_dir, ds, fs) == CatPath(path, FullPath(path, current_dir), ds, fs)

handle_cat(args, current_dir, ds, fs) ==
    IF args = <<>> THEN Ret("cat: missing operand", ds, fs)
    ELSE Ret(Join([i \in 1..Len(args) |-> CatLine(args[i], current_dir, ds, fs)], "\n"), ds, fs)

\* an open(file_path, 'w'), which empties the file it opens
TouchOpenTruncating(made, file_path, f, dp) ==
    IF f \in made.dirs \/ LastOf(file_path) # basename(file_path)
    THEN Err(made.dirs, made.files, EISDIR(file_path))
    ELSE IF f \in DOMAIN made.files THEN NoErr(made.dirs, With(made.files, f, ""))
    ELSE NoErr(made.dirs, With(made.files, Child(dp, LastOf(file_path)), ""))

\* open(file_path, 'a') for the entry f that file_path names, in dp
TouchOpen(made, file_path, f, dp) ==
    IF f \in made.dirs \/ LastOf(file_path) # basename(file_path)
    THEN Err(made.dirs, made.files, EISDIR(file_path))
    ELSE IF f \in DOMAIN made.files THEN NoErr(made.dirs, made.files)
    ELSE NoErr(made.dirs, With(made.files, Child(dp, LastOf(file_path)), ""))

\* what handle_touch does to the file system for one argument, after
\* os.makedirs of the directory of file_path
TouchMade(made, file_path) ==
    IF made.err # "" THEN made
    ELSE TouchOpen(made, file_path, Resolve(made.dirs, made.files, file_path),
                   ParentOf(made.dirs, made.files, file_path))

TouchLine(opened, path, file_path) ==
    IF opened.err = "" THEN "Touched file: " \o file_path
    ELSE "touch: cannot touch '" \o path \o "': " \o opened.err

RECURSIVE TouchLoop(_, _, _, _, _)

TouchStep(opened, paths, current_dir, results, file_path) ==
    TouchLoop(Tail(paths), current_dir,
              Append(results, TouchLine(opened, Head(paths), file_path)),
              opened.dirs, opened.files)

TouchAt(paths, current_dir, results, ds, fs, file_path) ==
    TouchStep(TouchMade(os_makedirs(ds, fs, OrDot(dirname(file_path)), TRUE), file_path),
              paths, current_dir, results, file_path)

\* the loop of handle_touch over the arguments
TouchLoop(paths, current_dir, results, ds, fs) ==
    IF paths = <<>> THEN Ret(Join(results, "\n"), ds, fs)
    ELSE TouchAt(paths, current_dir, results, ds, fs, FullPath(Head(paths), current_dir))

handle_touch(args, current_dir, ds, fs) ==
    IF args = <<>> THEN Ret("touch: missing file operand", ds, fs)
    ELSE TouchLoop(args, current_dir, <<>>, ds, fs)

\* what the host reports for an entry: the size of a directory and the
\* modification time, as time.strftime("%b %d %H:%M") prints it
DirSize == 4096
ModTime == "Jan 01 00:00"

RECURSIVE Digits(_)
Digits(n) == IF n < 10 THEN Ch("0123456789", n + 1)
             ELSE Digits(n \div 10) \o Ch("0123456789", (n % 10) + 1)

\* s.rjust(n)
RJust(s, n) == Repeat(" ", IF Len(s) < n THEN n - Len(s) ELSE 0) \o s

\* f"{size:8d}"
Pad8(n) == RJust(Digits(n), 8)

\* s.ljust(n)
LJust(s, n) == s \o Repeat(" ", IF Len(s) < n THEN n - Len(s) ELSE 0)

\* the path handle_ls lists: the last operand, or the current directory
RECURSIVE LsPath(_, _, _)
LsPath(args, current_dir, path) ==
    IF args = <<>> THEN path
    ELSE LsPath(Tail(args), current_dir,
                IF IsFlag(Head(args)) THEN path ELSE FullPath(Head(args), current_dir))

\* the option letter is in one of the arguments that start with '-'
HasOption(args, letter) ==
    \E i \in 1..Len(args) : IsFlag(args[i]) /\ Contains(args[i], letter)

\* the line of handle_ls for the entry named n of the directory d
LsShort(ds, d, n) == IF Child(d, n) \in ds THEN n \o "/" ELSE n

LsLong(ds, fs, d, n) ==
    (IF Child(d, n) \in ds THEN "d" ELSE "-") \o "rwxrwxrwx "
    \o Pad8(IF Child(d, n) \in ds THEN DirSize ELSE Len(fs[Child(d, n)]))
    \o " " \o ModTime \o " " \o LsShort(ds, d, n)

LsItems(sorted, long_format, d, ds, fs) ==
    IF sorted = <<>> THEN "(empty directory)"
    ELSE IF long_format THEN Join([i \in 1..Len(sorted) |-> LsLong(ds, fs, d, sorted[i])], "\n")
    ELSE Join([i \in 1..Len(sorted) |-> LsShort(ds, d, sorted[i])], "  ")

LsAt(args, path, d, ds, fs) ==
    IF d = ""
    THEN "ls: cannot access '"
         \o (IF args # <<>> /\ ~IsFlag(args[Len(args)]) THEN args[Len(args)] ELSE path)
         \o "': No such file or directory"
    ELSE IF d \notin ds THEN "ls: error: " \o ENOTDIR(path)
    ELSE LsItems(SortedStr({n \in ListDir(ds, fs, d) :
                               HasOption(args, "a") \/ ~StartsWith(n, ".")}),
                 HasOption(args, "l"), d, ds, fs)

LsIn(args, path, ds, fs) == LsAt(args, path, Resolve(ds, fs, path), ds, fs)

handle_ls(args, current_dir, ds, fs) ==
    LsIn(args, LsPath(args, current_dir, current_dir), ds, fs)

\* fnmatch.fnmatch(name, pat) for patterns of literal characters, * and ?
RECURSIVE fnmatch(_, _)
fnmatch(name, pat) ==
    IF pat = "" THEN name = ""
    ELSE IF Ch(pat, 1) = "*"
         THEN \E k \in 0..Len(name) : fnmatch(SubSeq(name, k + 1, Len(name)), SubSeq(pat, 2, Len(pat)))
    ELSE /\ name # ""
         /\ Ch(pat, 1) \in {"?", Ch(name, 1)}
         /\ fnmatch(SubSeq(name, 2, Len(name)), SubSeq(pat, 2, Len(pat)))

HasMagic(s) == Contains(s, "*") \/ Contains(s, "?") \/ Contains(s, "[")

\* the paths of glob for the names that match, in the order of the listing
GlobPaths(pattern, order) ==
    [i \in 1..Len(order) |-> path_join(dirname(pattern), order[i])]

GlobIn(ds, fs, pattern, d) ==
    IF d \notin ds THEN <<>>
    ELSE GlobPaths(pattern,
                   SortedStr({n \in ListDir(ds, fs, d) :
                                 /\ fnmatch(n, basename(pattern))
                                 /\ (StartsWith(n, ".") => StartsWith(basename(pattern), "."))}))

\* glob.glob(pattern) for a pattern whose wildcards are in its last
\* component: the paths that match, as the pattern spells them. A directory
\* is listed in the order of its names.
glob(ds, fs, pattern) ==
    IF ~HasMagic(pattern)
    THEN IF exists(ds, fs, pattern) THEN <<pattern>> ELSE <<>>
    ELSE GlobIn(ds, fs, pattern, Resolve(ds, fs, dirname(pattern)))

\* text.split("\n") without the empty piece after a final line end
LinesOf(text, parts) ==
    IF text = "" THEN <<>>
    ELSE IF parts[Len(parts)] = "" THEN SubSeq(parts, 1, Len(parts) - 1)
    ELSE parts

\* the lines of a text file, as iterating over the open file yields them
\* (without their line ends)
FileLines(text) == LinesOf(text, SplitOn(text, "\n"))

\* re.search(pattern, line) for a pattern of literal characters
re_search(pattern, line) == Contains(line, pattern)

RECURSIVE Flatten(_)
Flatten(seqs) == IF seqs = <<>> THEN <<>> ELSE Head(seqs) \o Flatten(Tail(seqs))

\* the result lines of handle_grep for the lines of one file, from line i on
RECURSIVE GrepLines(_, _, _, _)
GrepLines(pattern, file_path, lines, i) ==
    IF i > Len(lines) THEN <<>>
    ELSE (IF re_search(pattern, lines[i])
          THEN <<file_path \o ":" \o Digits(i) \o ":" \o RStrip(lines[i])>>
          ELSE <<>>)
         \o GrepLines(pattern, file_path, lines, i + 1)

GrepAt(pattern, file_path, f, ds, fs) ==
    IF f \in ds THEN <<"grep: " \o file_path \o ": Is a directory">>
    ELSE GrepLines(pattern, file_path, FileLines(fs[f]), 1)

\* the result lines of handle_grep for one matched path
GrepFile(pattern, file_path, ds, fs) ==
    GrepAt(pattern, file_path, Resolve(ds, fs, file_path), ds, fs)

GrepPaths(pattern, file_pattern, file_paths, ds, fs) ==
    IF file_paths = <<>>
    THEN <<"grep: " \o file_pattern \o ": No such file or directory">>
    ELSE Flatten([i \in 1..Len(file_paths) |-> GrepFile(pattern, file_paths[i], ds, fs)])

\* the result lines of handle_grep for one operand
GrepOperand(pattern, file_pattern, current_dir, ds, fs) ==
    GrepPaths(pattern, file_pattern, glob(ds, fs, FullPath(file_pattern, current_dir)), ds, fs)

handle_grep(args, current_dir, ds, fs) ==
    IF Len(args) < 2 THEN "grep: missing pattern or file operand"
    ELSE Join(Flatten([i \in 1..(Len(args) - 1) |->
                          GrepOperand(args[1], args[i + 1], current_dir, ds, fs)]), "\n")

\* the components of a normalised path
Parts(path) == SelectSeq(SplitOn(normpath(path), "/"), LAMBDA c : c # "")

\* the length of the longest common prefix of the sequences a and b
RECURSIVE CommonLen(_, _)
CommonLen(a, b) ==
    IF a = <<>> \/ b = <<>> \/ Head(a) # Head(b) THEN 0
    ELSE 1 + CommonLen(Tail(a), Tail(b))

RelFrom(pl, sl, i) ==
    OrDot(Join([k \in 1..(Len(sl) - i) |-> ".."] \o SubSeq(pl, i + 1, Len(pl)), "/"))

RelParts(pl, sl) == RelFrom(pl, sl, CommonLen(pl, sl))

\* os.path.relpath(path, start) of two absolute paths
relpath(path, start) == RelParts(Parts(path), Parts(start))

\* the root os.walk reports for the directory d of the walk from top, whose
\* entry is t
WalkRoot(top, t, d) == IF d = t THEN top ELSE path_join(top, relpath(d, t))

RECURSIVE WalkTree(_, _, _, _, _)

\* os.walk for the directory d with the sorted names of its entries
WalkNames(ds, fs, top, t, d, names) ==
    [i \in 1..Len(names) |-> <<names[i], path_join(WalkRoot(top, t, d), names[i])>>]

WalkDir(ds, fs, top, t, d, subs, plain) ==
    WalkNames(ds, fs, top, t, d, subs)
    \o WalkNames(ds, fs, top, t, d, plain)
    \o Flatten([i \in 1..Len(subs) |-> WalkTree(ds, fs, top, t, Child(d, subs[i]))])

WalkList(ds, fs, top, t, d, names) ==
    WalkDir(ds, fs, top, t, d,
            SelectSeq(names, LAMBDA n : Child(d, n) \in ds),
            SelectSeq(names, LAMBDA n : Child(d, n) \notin ds))

\* os.walk(top) from the directory d on, top being the entry t: for each
\* directory its directories and then its files, as pairs of the name and
\* os.path.join(root, name), before the walk goes on into its directories.
\* A directory is listed in the order of its names.
WalkTree(ds, fs, top, t, d) == WalkList(ds, fs, top, t, d, SortedStr(ListDir(ds, fs, d)))

\* the argument after the first "-name", or "" when there is none
RECURSIVE NamePattern(_)
NamePattern(args) ==
    IF Len(args) < 2 THEN ""
    ELSE IF Head(args) = "-name" THEN args[2]
    ELSE NamePattern(Tail(args))

\* the output of handle_find for the entries of the walk that are kept
FindKept(kept, current_dir) ==
    Join([i \in 1..Len(kept) |-> relpath(kept[i][2], current_dir)], "\n")

\* the entries of the walk whose names match the pattern, when there is one
FindIn(found, name_pattern) ==
    SelectSeq(found, LAMBDA e : name_pattern = "" \/ fnmatch(e[1], name_pattern))

FindAt(args, path, search_path, t, current_dir, ds, fs) ==
    IF t = "" THEN "find: '" \o path \o "': No such file or directory"
    ELSE IF t \notin ds THEN ""
    ELSE FindKept(FindIn(WalkTree(ds, fs, search_path, t, t), NamePattern(args)), current_dir)

FindFrom(args, path, search_path, current_dir, ds, fs) ==
    FindAt(args, path, search_path, Resolve(ds, fs, search_path), current_dir, ds, fs)

handle_find(args, current_dir, ds, fs) ==
    IF args = <<>> THEN "find: missing path operand"
    ELSE FindFrom(args, args[1], FullPath(args[1], current_dir), current_dir, ds, fs)

-----------------------------------------------------------------------------
(* The command table and the dispatcher. *)

\* AVAILABLE_COMMANDS, in the order of the dictionary
CommandTable == <<
    <<"ls", "List directory contents">>,
    <<"dir", "List directory contents (Windows)">>,
    <<"cd", "Change directory">>,
    <<"pwd", "Print working directory">>,
    <<"mkdir", "Make directory">>,
    <<"rmdir", "Remove directory">>,
    <<"rm", "Remove file or directory">>,
    <<"cp", "Copy file or directory">>,
    <<"mv", "Move file or directory">>,
    <<"cat", "Display file contents">>,
    <<"echo", "Display a line of text">>,
    <<"touch", "Create an empty file">>,
    <<"grep", "Search for patterns in files">>,
    <<"find", "Search for files">>,
    <<"ps", "Report process status">>,
    <<"top", "Display system processes">>,
    <<"clear", "Clear the terminal screen">>,
    <<"history", "Show command history">>,
    <<"help", "Display help information">>,
    <<"exit", "Exit the terminal">>,
    <<"cpu", "Display CPU information">>,
    <<"memory", "Display memory information">>,
    <<"processes", "List running processes">> >>

\* AVAILABLE_COMMANDS.keys(), in order
CommandNames == [i \in 1..Len(CommandTable) |-> CommandTable[i][1]]

AVAILABLE_COMMANDS == {CommandTable[i][1] : i \in 1..Len(CommandTable)}

Description(cmd) ==
    CommandTable[CHOOSE i \in 1..Len(CommandTable) : CommandTable[i][1] = cmd][2]

\* the width help pads a command name to
HelpWidth == 10

handle_help(args) ==
    IF args = <<>>
    THEN LET names == SortedStr(AVAILABLE_COMMANDS)
         IN  Join(<<"Available commands:">>
                  \o [i \in 1..Len(names) |->
                         "  " \o LJust(names[i], HelpWidth) \o " - " \o Description(names[i])],
                  "\n")
    ELSE LET cmd == Lower(args[1])
         IN  IF cmd \in AVAILABLE_COMMANDS THEN cmd \o " - " \o Description(cmd)
             ELSE "help: no help topics match '" \o cmd \o "'"

\* platform.system() of the host; the paths of the model are POSIX paths
platform_system == "Linux"

\* The handlers that report on the host through psutil: what they print is
\* the host's, so only the fixed part of their output is modelled.
handle_ps == "PID\tCPU%\tMEM%\tUSER\tCOMMAND\n1\t0.0\t0.1\troot\tinit"
handle_top == "CPU Usage: 0.0%\nMemory: 0.1% used (1 MB / 1024 MB)\n\nPID\tCPU%\tMEM%\tUSER\tCOMMAND\n1\t0.0\t0.1\troot\tinit"
handle_cpu_info == "Physical cores: 1\nTotal cores: 1\nCPU Usage Per Core:\n  Core 0: 0.0%\nTotal CPU Usage: 0.0%"
handle_memory_info == "Memory Information:\n  Total: 1024 MB\n  Available: 1023 MB\n  Used: 1 MB (0.1%)\n  Free: 1023 MB"
handle_process_list == "PID\tSTATUS\tUSER\tCOMMAND\n1\trunning\troot\tinit"

\* the length of the longest common prefix of a[i..] and b[j..]
RECURSIVE MatchLen(_, _, _, _)
MatchLen(a, i, b, j) ==
    IF i > Len(a) \/ j > Len(b) \/ Ch(a, i) # Ch(b, j) THEN 0
    ELSE 1 + MatchLen(a, i + 1, b, j + 1)

\* the places a block of a and b can start at
Starts(a, b) == {<<i, j>> : i \in 1..Len(a), j \in 1..Len(b)}

\* the greatest number of a set of naturals, 0 for the empty set
Greatest(S) == IF S = {} THEN 0 ELSE CHOOSE n \in S : \A m \in S : m <= n

\* x starts a block of the length n
Long(a, b, x, n) == MatchLen(a, x[1], b, x[2]) = n

\* of the blocks of the length n, the one that starts earliest in a, then
\* earliest in b
Earliest(a, b, n) ==
    CHOOSE x \in Starts(a, b) :
        /\ Long(a, b, x, n)
        /\ \A y \in Starts(a, b) :
               Long(a, b, y, n) => (x[1] < y[1] \/ (x[1] = y[1] /\ x[2] <= y[2]))

BlockOf(best, n) == <<best[1], best[2], n>>

LongestOf(a, b, n) == BlockOf(Earliest(a, b, n), n)

\* SequenceMatcher.find_longest_match over all of a and b: the longest
\* block, of those the one that starts earliest in a, then earliest in b
LongestMatch(a, b) ==
    LongestOf(a, b, Greatest({MatchLen(a, x[1], b, x[2]) : x \in Starts(a, b)}))

\* the number of matched characters SequenceMatcher.get_matching_blocks
\* finds: the longest block m, and the matches to its left and to its right
RECURSIVE Matches(_, _)
Around(a, b, m) ==
    IF m[3] = 0 THEN 0
    ELSE m[3]
         + Matches(SubSeq(a, 1, m[1] - 1), SubSeq(b, 1, m[2] - 1))
         + Matches(SubSeq(a, m[1] + m[3], Len(a)), SubSeq(b, m[2] + m[3], Len(b)))

Matches(a, b) ==
    IF a = "" \/ b = "" THEN 0 ELSE Around(a, b, LongestMatch(a, b))

\* SequenceMatcher(None, x, word).ratio() >= pct / 100
RatioAtLeast(x, word, pct) ==
    IF Len(x) + Len(word) = 0 THEN TRUE
    ELSE 200 * Matches(x, word) >= pct * (Len(x) + Len(word))

Above(rx, ry, x, y) == rx > ry \/ (rx = ry /\ StrLess(y, x))

\* (ratio(x), x) > (ratio(y), y), the order heapq.nlargest sorts by
ScoreAbove(x, y, word) ==
    Above(Matches(x, word) * (Len(y) + Len(word)),
          Matches(y, word) * (Len(x) + Len(word)), x, y)

RECURSIVE Ranked(_, _)
RankedFrom(S, word, top) == <<top>> \o Ranked(S \ {top}, word)

Ranked(S, word) ==
    IF S = {} THEN <<>>
    ELSE RankedFrom(S, word, CHOOSE x \in S : \A y \in S \ {x} : ScoreAbove(x, y, word))

Take(s, n) == SubSeq(s, 1, IF Len(s) < n THEN Len(s) ELSE n)

\* difflib.get_close_matches(word, possibilities, n, cutoff), the cutoff in
\* hundredths
get_close_matches(word, possibilities, n, pct) ==
    Take(Ranked({x \in possibilities : RatioAtLeast(x, word, pct)}, word), n)

\* the arguments of the did-you-mean search of execute_command
SuggestCount == 3
SuggestCutoff == 60

\* the denylist of the shell fallback
dangerous_commands == <<"rm -rf /", "rm -rf /*", "dd", "mkfs", "format">>

\* an IsDangerous that compares the command line as it was typed
IsDangerousCased(command) ==
    \E i \in 1..Len(dangerous_commands) : Contains(command, dangerous_commands[i])

IsDangerous(command) ==
    \E i \in 1..Len(dangerous_commands) : Contains(Lower(command), dangerous_commands[i])

\* None, and a value that may be None: <<>> or <<v>>
None == <<>>
Some(v) == <<v>>

\* What subprocess.Popen(...).communicate(timeout=10) can come to, a choice
\* the host makes: the streams of a process that ended, or a timeout.
ShellOutcomes == {
    [kind |-> "done",    stdout |-> "root\n", stderr |-> ""],
    [kind |-> "done",    stdout |-> "",       stderr |-> ""],
    [kind |-> "done",    stdout |-> "",       stderr |-> "sh: 1: not found\n"],
    [kind |-> "timeout", stdout |-> "",       stderr |-> ""] }

\* the result of execute_command: the dictionary it returns (output,
\* new_dir), the file system it leaves, the command lines it handed to
\* subprocess.Popen, the branch of the dispatch it took, the message of the
\* exception its outer except caught ("" when it caught none), and whether
\* an exception left it
Result(output, new_dir, ds, fs, started, branch) ==
    [output |-> output, new_dir |-> new_dir, dirs |-> ds, files |-> fs,
     popen |-> started, branch |-> branch, exc |-> "", raised |-> FALSE]

\* built-in handlers without the guard: an exception leaves execute_command
Unguarded(h, branch) ==
    IF h.exc # ""
    THEN [Result(h.exc, None, h.dirs, h.files, <<>>, branch)
             EXCEPT !.exc = h.exc, !.raised = TRUE]
    ELSE Result(h.out, None, h.dirs, h.files, <<>>, branch)

\* the guard around the built-in handlers: an exception becomes the output
Guarded(h, branch) ==
    IF h.exc # ""
    THEN [Result("Error executing command: " \o h.exc, None, h.dirs, h.files, <<>>, branch)
             EXCEPT !.exc = h.exc]
    ELSE Result(h.out, None, h.dirs, h.files, <<>>, branch)

\* the shell fallback of execute_command, for a command that is no
\* built-in and has no close match
ShellFallback(command, cmd, current_dir, ds, fs, sh) ==
    IF IsDangerous(command)
    THEN Result("Error: Potentially dangerous command '" \o command
                \o "' blocked for safety reasons.", None, ds, fs, <<>>, "blocked")
    ELSE IF ~isdir(ds, fs, current_dir)
    THEN Result("Command '" \o cmd \o "' not found or could not be executed: "
                \o (IF exists(ds, fs, current_dir) THEN ENOTDIR(current_dir) ELSE ENOENT(current_dir)),
                None, ds, fs, <<command>>, "shell")
    ELSE IF sh.kind = "timeout"
    THEN Result("Command timed out after 10 seconds", None, ds, fs, <<command>>, "shell")
    ELSE IF sh.stderr # ""
    THEN Result(Strip(sh.stderr), None, ds, fs, <<command>>, "shell")
    ELSE Result(IF Strip(sh.stdout) # "" THEN Strip(sh.stdout)
                ELSE "(Command executed successfully with no output)",
                None, ds, fs, <<command>>, "shell")

\* the branch of execute_command for a command that is no built-in, with
\* the suggestions of the did-you-mean search
Suggest(suggestions, command, cmd, current_dir, ds, fs, sh) ==
    IF suggestions # <<>>
    THEN Result("Command '" \o cmd \o "' not found. Did you mean: "
                \o Join(suggestions, ", ") \o "?", None, ds, fs, <<>>, "not found")
    ELSE ShellFallback(command, cmd, current_dir, ds, fs, sh)

Fallback(command, cmd, current_dir, ds, fs, sh) ==
    Suggest(get_close_matches(cmd, AVAILABLE_COMMANDS, SuggestCount, SuggestCutoff),
            command, cmd, current_dir, ds, fs, sh)

\* a cd branch that sets new_dir before it looks at the handler's outcome
CdResultUnchecked(h, ds, fs) ==
    IF h.exc # ""
    THEN [Guarded(h, "cd") EXCEPT !.new_dir = Some(h.out)]
    ELSE Result("Changed directory to: " \o h.out, Some(h.out), ds, fs, <<>>, "cd")

\* the cd branch: the new directory is returned, not stored
CdResult(h, ds, fs) ==
    IF h.exc # "" THEN Guarded(h, "cd")
    ELSE Result("Changed directory to: " \o h.out, Some(h.out), ds, fs, <<>>, "cd")

\* the try block of execute_command
Dispatch(command, cmd, args, current_dir, ds, fs, sh) ==
    IF cmd = "ls" \/ (cmd = "dir" /\ platform_system = "Windows")
    THEN Guarded(Ret(handle_ls(args, current_dir, ds, fs), ds, fs), "ls")
    ELSE IF cmd = "cd" THEN CdResult(handle_cd(args, current_dir, ds, fs), ds, fs)
    ELSE IF cmd = "pwd" THEN Guarded(Ret(handle_pwd(current_dir), ds, fs), cmd)
    ELSE IF cmd = "mkdir" THEN Guarded(handle_mkdir(args, current_dir, ds, fs), cmd)
    ELSE IF cmd = "rmdir" THEN Guarded(handle_rmdir(args, current_dir, ds, fs), cmd)
    ELSE IF cmd = "rm" THEN Guarded(handle_rm(args, current_dir, ds, fs), cmd)
    ELSE IF cmd = "cp" THEN Guarded(handle_cp(args, current_dir, ds, fs), cmd)
    ELSE IF cmd = "mv" THEN Guarded(handle_mv(args, current_dir, ds, fs), cmd)
    ELSE IF cmd = "cat" THEN Guarded(handle_cat(args, current_dir, ds, fs), cmd)
    ELSE IF cmd = "echo" THEN Guarded(Ret(handle_echo(args), ds, fs), cmd)
    ELSE IF cmd = "touch" THEN Guarded(handle_touch(args, current_dir, ds, fs), cmd)
    ELSE IF cmd = "grep" THEN Guarded(Ret(handle_grep(args, current_dir, ds, fs), ds, fs), cmd)
    ELSE IF cmd = "find" THEN Guarded(Ret(handle_find(args, current_dir, ds, fs), ds, fs), cmd)
    ELSE IF cmd = "ps" THEN Guarded(Ret(handle_ps, ds, fs), cmd)
    ELSE IF cmd = "top" THEN Guarded(Ret(handle_top, ds, fs), cmd)
    ELSE IF cmd = "clear" THEN Guarded(Ret(handle_clear, ds, fs), cmd)
    ELSE IF cmd = "test"
    THEN Guarded(Ret("Test command working! The output system is functional.", ds, fs), cmd)
    ELSE IF cmd = "help" THEN Guarded(Ret(handle_help(args), ds, fs), cmd)
    ELSE IF cmd = "exit" THEN Guarded(Ret(handle_exit, ds, fs), cmd)
    ELSE IF cmd = "cpu" THEN Guarded(Ret(handle_cpu_info, ds, fs), cmd)
    ELSE IF cmd = "memory" THEN Guarded(Ret(handle_memory_info, ds, fs), cmd)
    ELSE IF cmd = "processes" THEN Guarded(Ret(handle_process_list, ds, fs), cmd)
    ELSE Fallback(command, cmd, current_dir, ds, fs, sh)

\* the replacement of an empty output after the try block
EnsureOutput(r, cmd, current_dir) ==
    IF r.output = "" /\ cmd \in {"ls", "pwd", "help", "echo"} /\ r.branch # "blocked"
    THEN [r EXCEPT !.output =
             IF cmd = "ls" THEN "(empty directory)"
             ELSE IF cmd = "pwd" THEN current_dir
             ELSE IF cmd = "help" THEN "Type 'help' for available commands"
             ELSE ""]
    ELSE r

\* an execute_command that tests every command line against the denylist
\* before it looks for a built-in
ExecutePartsChecked(command, cmd, args, current_dir, ds, fs, sh) ==
    IF IsDangerous(command) THEN ShellFallback(command, cmd, current_dir, ds, fs, sh)
    ELSE EnsureOutput(Dispatch(command, cmd, args, current_dir, ds, fs, sh), cmd, current_dir)

\* the command line split into its words: the command name in lower case
\* and the arguments
ExecuteParts(command, cmd, args, current_dir, ds, fs, sh) ==
    EnsureOutput(Dispatch(command, cmd, args, current_dir, ds, fs, sh), cmd, current_dir)

\* execute_command(command, current_dir) on the file system (ds, fs), with
\* sh the outcome of the subprocess if one is started
execute_command(command, current_dir, ds, fs, sh) ==
    IF command = "" \/ Strip(command) = ""
    THEN Result("", None, ds, fs, <<>>, "empty")
    ELSE ExecuteParts(command, Lower(Head(Split(command))), Tail(Split(command)),
                      current_dir, ds, fs, sh)

-----------------------------------------------------------------------------
(* The natural-language translator. A regular expression of the pattern    *)
(* table is kept as its source text and as the sequence of items the text  *)
(* denotes: a literal, an optional part (?:...)?, an alternation (?:a|b),  *)
(* and a named group (?P<name>\S+) or (?P<name>.+).                        *)

Lit(s) == [t |-> "lit", s |-> s]
Opt(r) == [t |-> "opt", r |-> r]
Alt(rs) == [t |-> "alt", rs |-> rs]
Grp(name, cls) == [t |-> "grp", name |-> name, cls |-> cls]

COMMAND_PATTERNS == <<
    [patterns |-> <<
        [source |-> "create (?:a )?(?:new )?(?:empty )?file (?:called |named )?(?P<filename>\\S+)",
         groups |-> <<"filename">>,
         regex  |-> <<Lit("create "), Opt(<<Lit("a ")>>), Opt(<<Lit("new ")>>), Opt(<<Lit("empty ")>>), Lit("file "), Opt(<<Alt(<<<<Lit("called ")>>, <<Lit("named ")>>>>)>>), Grp("filename", "nonspace")>>],
        [source |-> "make (?:a )?(?:new )?(?:empty )?file (?:called |named )?(?P<filename>\\S+)",
         groups |-> <<"filename">>,
         regex  |-> <<Lit("make "), Opt(<<Lit("a ")>>), Opt(<<Lit("new ")>>), Opt(<<Lit("empty ")>>), Lit("file "), Opt(<<Alt(<<<<Lit("called ")>>, <<Lit("named ")>>>>)>>), Grp("filename", "nonspace")>>] >>,
     command |-> "touch {filename}", generator |-> ""],
    [patterns |-> <<
        [source |-> "create (?:a )?(?:new )?directory (?:called |named )?(?P<dirname>\\S+)",
         groups |-> <<"dirname">>,
         regex  |-> <<Lit("create "), Opt(<<Lit("a ")>>), Opt(<<Lit("new ")>>), Lit("directory "), Opt(<<Alt(<<<<Lit("called ")>>, <<Lit("named ")>>>>)>>), Grp("dirname", "nonspace")>>],
        [source |-> "make (?:a )?(?:new )?directory (?:called |named )?(?P<dirname>\\S+)",
         groups |-> <<"dirname">>,
         regex  |-> <<Lit("make "), Opt(<<Lit("a ")>>), Opt(<<Lit("new ")>>), Lit("directory "), Opt(<<Alt(<<<<Lit("called ")>>, <<Lit("named ")>>>>)>>), Grp("dirname", "nonspace")>>],
        [source |-> "create (?:a )?(?:new )?folder (?:called |named )?(?P<dirname>\\S+)",
         groups |-> <<"dirname">>,
         regex  |-> <<Lit("create "), Opt(<<Lit("a ")>>), Opt(<<Lit("new ")>>), Lit("folder "), Opt(<<Alt(<<<<Lit("called ")>>, <<Lit("named ")>>>>)>>), Grp("dirname", "nonspace")>>],
        [source |-> "make (?:a )?(?:new )?folder (?:called |named )?(?P<dirname>\\S+)",
         groups |-> <<"dirname">>,
         regex  |-> <<Lit("make "), Opt(<<Lit("a ")>>), Opt(<<Lit("new ")>>), Lit("folder "), Opt(<<Alt(<<<<Lit("called ")>>, <<Lit("named ")>>>>)>>), Grp("dirname", "nonspace")>>] >>,
     command |-> "mkdir {dirname}", generator |-> ""],
    [patterns |-> <<
        [source |-> "(?:show|display|list) (?:the )?(?:files|contents) (?:in|of)(?: the)? (?:directory|folder)?(?: (?P<dirname>\\S+))?",
         groups |-> <<"dirname">>,
         regex  |-> <<Alt(<<<<Lit("show")>>, <<Lit("display")>>, <<Lit("list")>>>>), Lit(" "), Opt(<<Lit("the ")>>), Alt(<<<<Lit("files")>>, <<Lit("contents")>>>>), Lit(" "), Alt(<<<<Lit("in")>>, <<Lit("of")>>>>), Opt(<<Lit(" the")>>), Lit(" "), Opt(<<Alt(<<<<Lit("directory")>>, <<Lit("folder")>>>>)>>), Opt(<<Lit(" "), Grp("dirname", "nonspace")>>)>>],
        [source |-> "(?:show|display|list) (?:the )?(?:directory|folder)(?: (?P<dirname>\\S+))?",
         groups |-> <<"dirname">>,
         regex  |-> <<Alt(<<<<Lit("show")>>, <<Lit("display")>>, <<Lit("list")>>>>), Lit(" "), Opt(<<Lit("the ")>>), Alt(<<<<Lit("directory")>>, <<Lit("folder")>>>>), Opt(<<Lit(" "), Grp("dirname", "nonspace")>>)>>],
        [source |-> "what(?:\\'s| is) in(?: the)? (?:directory|folder)(?: (?P<dirname>\\S+))?",
         groups |-> <<"dirname">>,
         regex  |-> <<Lit("what"), Alt(<<<<Lit("'s")>>, <<Lit(" is")>>>>), Lit(" in"), Opt(<<Lit(" the")>>), Lit(" "), Alt(<<<<Lit("directory")>>, <<Lit("folder")>>>>), Opt(<<Lit(" "), Grp("dirname", "nonspace")>>)>>] >>,
     command |-> "ls {dirname}", generator |-> ""],
    [patterns |-> <<
        [source |-> "(?:show|display|print) (?:the )?contents of(?: the)? file (?P<filename>\\S+)",
         groups |-> <<"filename">>,
         regex  |-> <<Alt(<<<<Lit("show")>>, <<Lit("display")>>, <<Lit("print")>>>>), Lit(" "), Opt(<<Lit("the ")>>), Lit("contents of"), Opt(<<Lit(" the")>>), Lit(" file "), Grp("filename", "nonspace")>>],
        [source |-> "(?:show|display|print) (?:the )?file (?P<filename>\\S+)",
         groups |-> <<"filename">>,
         regex  |-> <<Alt(<<<<Lit("show")>>, <<Lit("display")>>, <<Lit("print")>>>>), Lit(" "), Opt(<<Lit("the ")>>), Lit("file "), Grp("filename", "nonspace")>>],
        [source |-> "read (?:the )?file (?P<filename>\\S+)",
         groups |-> <<"filename">>,
         regex  |-> <<Lit("read "), Opt(<<Lit("the ")>>), Lit("file "), Grp("filename", "nonspace")>>],
        [source |-> "what(?:\\'s| is) in(?: the)? file (?P<filename>\\S+)",
         groups |-> <<"filename">>,
         regex  |-> <<Lit("what"), Alt(<<<<Lit("'s")>>, <<Lit(" is")>>>>), Lit(" in"), Opt(<<Lit(" the")>>), Lit(" file "), Grp("filename", "nonspace")>>] >>,
     command |-> "cat {filename}", generator |-> ""],
    [patterns |-> <<
        [source |-> "(?:remove|delete) (?:the )?file (?P<filename>\\S+)",
         groups |-> <<"filename">>,
         regex  |-> <<Alt(<<<<Lit("remove")>>, <<Lit("delete")>>>>), Lit(" "), Opt(<<Lit("the ")>>), Lit("file "), Grp("filename", "nonspace")>>],
        [source |-> "(?:remove|delete) (?P<filename>\\S+)",
         groups |-> <<"filename">>,
         regex  |-> <<Alt(<<<<Lit("remove")>>, <<Lit("delete")>>>>), Lit(" "), Grp("filename", "nonspace")>>] >>,
     command |-> "rm {filename}", generator |-> ""],
    [patterns |-> <<
        [source |-> "(?:remove|delete) (?:the )?(?:directory|folder) (?P<dirname>\\S+)",
         groups |-> <<"dirname">>,
         regex  |-> <<Alt(<<<<Lit("remove")>>, <<Lit("delete")>>>>), Lit(" "), Opt(<<Lit("the ")>>), Alt(<<<<Lit("directory")>>, <<Lit("folder")>>>>), Lit(" "), Grp("dirname", "nonspace")>>],
        [source |-> "(?:remove|delete) (?:the )?(?:directory|folder) (?P<dirname>\\S+) and (?:its|all its) contents",
         groups |-> <<"dirname">>,
         regex  |-> <<Alt(<<<<Lit("remove")>>, <<Lit("delete")>>>>), Lit(" "), Opt(<<Lit("the ")>>), Alt(<<<<Lit("directory")>>, <<Lit("folder")>>>>), Lit(" "), Grp("dirname", "nonspace"), Lit(" and "), Alt(<<<<Lit("its")>>, <<Lit("all its")>>>>), Lit(" contents")>>],
        [source |-> "(?:remove|delete) (?:the )?(?:directory|folder) (?P<dirname>\\S+) recursively",
         groups |-> <<"dirname">>,
         regex  |-> <<Alt(<<<<Lit("remove")>>, <<Lit("delete")>>>>), Lit(" "), Opt(<<Lit("the ")>>), Alt(<<<<Lit("directory")>>, <<Lit("folder")>>>>), Lit(" "), Grp("dirname", "nonspace"), Lit(" recursively")>>] >>,
     command |-> "rm -r {dirname}", generator |-> ""],
    [patterns |-> <<
        [source |-> "copy (?:the )?file (?P<source>\\S+) to (?P<destination>\\S+)",
         groups |-> <<"source", "destination">>,
         regex  |-> <<Lit("copy "), Opt(<<Lit("the ")>>), Lit("file "), Grp("source", "nonspace"), Lit(" to "), Grp("destination", "nonspace")>>],
        [source |-> "copy (?P<source>\\S+) to (?P<destination>\\S+)",
         groups |-> <<"source", "destination">>,
         regex  |-> <<Lit("copy "), Grp("source", "nonspace"), Lit(" to "), Grp("destination", "nonspace")>>] >>,
     command |-> "cp {source} {destination}", generator |-> ""],
    [patterns |-> <<
        [source |-> "copy (?:the )?(?:directory|folder) (?P<source>\\S+) to (?P<destination>\\S+)",
         groups |-> <<"source", "destination">>,
         regex  |-> <<Lit("copy "), Opt(<<Lit("the ")>>), Alt(<<<<Lit("directory")>>, <<Lit("folder")>>>>), Lit(" "), Grp("source", "nonspace"), Lit(" to "), Grp("destination", "nonspace")>>],
        [source |-> "copy (?:the )?(?:directory|folder) (?P<source>\\S+) and (?:its|all its) contents to (?P<destination>\\S+)",
         groups |-> <<"source", "destination">>,
         regex  |-> <<Lit("copy "), Opt(<<Lit("the ")>>), Alt(<<<<Lit("directory")>>, <<Lit("folder")>>>>), Lit(" "), Grp("source", "nonspace"), Lit(" and "), Alt(<<<<Lit("its")>>, <<Lit("all its")>>>>), Lit(" contents to "), Grp("destination", "nonspace")>>] >>,
     command |-> "cp -r {source} {destination}", generator |-> ""],
    [patterns |-> <<
        [source |-> "move (?:the )?file (?P<source>\\S+) to (?P<destination>\\S+)",
         groups |-> <<"source", "destination">>,
         regex  |-> <<Lit("move "), Opt(<<Lit("the ")>>), Lit("file "), Grp("source", "nonspace"), Lit(" to "), Grp("destination", "nonspace")>>],
        [source |-> "move (?P<source>\\S+) to (?P<destination>\\S+)",
         groups |-> <<"source", "destination">>,
         regex  |-> <<Lit("move "), Grp("source", "nonspace"), Lit(" to "), Grp("destination", "nonspace")>>] >>,
     command |-> "mv {source} {destination}", generator |-> ""],
    [patterns |-> <<
        [source |-> "rename (?:the )?file (?P<source>\\S+) to (?P<destination>\\S+)",
         groups |-> <<"source", "destination">>,
         regex  |-> <<Lit("rename "), Opt(<<Lit("the ")>>), Lit("file "), Grp("source", "nonspace"), Lit(" to "), Grp("destination", "nonspace")>>],
        [source |-> "rename (?P<source>\\S+) to (?P<destination>\\S+)",
         groups |-> <<"source", "destination">>,
         regex  |-> <<Lit("rename "), Grp("source", "nonspace"), Lit(" to "), Grp("destination", "nonspace")>>] >>,
     command |-> "mv {source} {destination}", generator |-> ""],
    [patterns |-> <<
        [source |-> "(?:change|switch) (?:to )?(?:the )?(?:directory|folder) (?P<dirname>\\S+)",
         groups |-> <<"dirname">>,
         regex  |-> <<Alt(<<<<Lit("change")>>, <<Lit("switch")>>>>), Lit(" "), Opt(<<Lit("to ")>>), Opt(<<Lit("the ")>>), Alt(<<<<Lit("directory")>>, <<Lit("folder")>>>>), Lit(" "), Grp("dirname", "nonspace")>>],
        [source |-> "(?:change|switch) (?:to )?(?:the )?(?:directory|folder) (?P<dirname>.+)",
         groups |-> <<"dirname">>,
         regex  |-> <<Alt(<<<<Lit("change")>>, <<Lit("switch")>>>>), Lit(" "), Opt(<<Lit("to ")>>), Opt(<<Lit("the ")>>), Alt(<<<<Lit("directory")>>, <<Lit("folder")>>>>), Lit(" "), Grp("dirname", "any")>>],
        [source |-> "go to (?:the )?(?:directory|folder) (?P<dirname>\\S+)",
         groups |-> <<"dirname">>,
         regex  |-> <<Lit("go to "), Opt(<<Lit("the ")>>), Alt(<<<<Lit("directory")>>, <<Lit("folder")>>>>), Lit(" "), Grp("dirname", "nonspace")>>],
        [source |-> "go to (?:the )?(?:directory|folder) (?P<dirname>.+)",
         groups |-> <<"dirname">>,
         regex  |-> <<Lit("go to "), Opt(<<Lit("the ")>>), Alt(<<<<Lit("directory")>>, <<Lit("folder")>>>>), Lit(" "), Grp("dirname", "any")>>],
        [source |-> "cd (?:to )?(?P<dirname>\\S+)",
         groups |-> <<"dirname">>,
         regex  |-> <<Lit("cd "), Opt(<<Lit("to ")>>), Grp("dirname", "nonspace")>>],
        [source |-> "cd (?:to )?(?P<dirname>.+)",
         groups |-> <<"dirname">>,
         regex  |-> <<Lit("cd "), Opt(<<Lit("to ")>>), Grp("dirname", "any")>>] >>,
     command |-> "cd {dirname}", generator |-> ""],
    [patterns |-> <<
        [source |-> "(?:show|display|print) (?:the )?current (?:directory|folder|path)",
         groups |-> <<>>,
         regex  |-> <<Alt(<<<<Lit("show")>>, <<Lit("display")>>, <<Lit("print")>>>>), Lit(" "), Opt(<<Lit("the ")>>), Lit("current "), Alt(<<<<Lit("directory")>>, <<Lit("folder")>>, <<Lit("path")>>>>)>>],
        [source |-> "where am i",
         groups |-> <<>>,
         regex  |-> <<Lit("where am i")>>],
        [source |-> "what (?:directory|folder|path) am i in",
         groups |-> <<>>,
         regex  |-> <<Lit("what "), Alt(<<<<Lit("directory")>>, <<Lit("folder")>>, <<Lit("path")>>>>), Lit(" am i in")>>],
        [source |-> "what(?:\\'s| is) (?:the )?current (?:directory|folder|path)",
         groups |-> <<>>,
         regex  |-> <<Lit("what"), Alt(<<<<Lit("'s")>>, <<Lit(" is")>>>>), Lit(" "), Opt(<<Lit("the ")>>), Lit("current "), Alt(<<<<Lit("directory")>>, <<Lit("folder")>>, <<Lit("path")>>>>)>>] >>,
     command |-> "pwd", generator |-> ""],
    [patterns |-> <<
        [source |-> "go (?:back|up)(?: one level)?",
         groups |-> <<>>,
         regex  |-> <<Lit("go "), Alt(<<<<Lit("back")>>, <<Lit("up")>>>>), Opt(<<Lit(" one level")>>)>>],
        [source |-> "go to (?:the )?parent (?:directory|folder)",
         groups |-> <<>>,
         regex  |-> <<Lit("go to "), Opt(<<Lit("the ")>>), Lit("parent "), Alt(<<<<Lit("directory")>>, <<Lit("folder")>>>>)>>] >>,
     command |-> "cd ..", generator |-> ""],
    [patterns |-> <<
        [source |-> "go (?:to )?home",
         groups |-> <<>>,
         regex  |-> <<Lit("go "), Opt(<<Lit("to ")>>), Lit("home")>>],
        [source |-> "go to (?:the )?home (?:directory|folder)",
         groups |-> <<>>,
         regex  |-> <<Lit("go to "), Opt(<<Lit("the ")>>), Lit("home "), Alt(<<<<Lit("directory")>>, <<Lit("folder")>>>>)>>] >>,
     command |-> "cd ~", generator |-> ""],
    [patterns |-> <<
        [source |-> "find (?:all )?files (?:named|called) (?P<filename>\\S+)",
         groups |-> <<"filename">>,
         regex  |-> <<Lit("find "), Opt(<<Lit("all ")>>), Lit("files "), Alt(<<<<Lit("named")>>, <<Lit("called")>>>>), Lit(" "), Grp("filename", "nonspace")>>],
        [source |-> "search for (?:all )?files (?:named|called) (?P<filename>\\S+)",
         groups |-> <<"filename">>,
         regex  |-> <<Lit("search for "), Opt(<<Lit("all ")>>), Lit("files "), Alt(<<<<Lit("named")>>, <<Lit("called")>>>>), Lit(" "), Grp("filename", "nonspace")>>],
        [source |-> "locate (?:all )?files (?:named|called) (?P<filename>\\S+)",
         groups |-> <<"filename">>,
         regex  |-> <<Lit("locate "), Opt(<<Lit("all ")>>), Lit("files "), Alt(<<<<Lit("named")>>, <<Lit("called")>>>>), Lit(" "), Grp("filename", "nonspace")>>] >>,
     command |-> "find . -name {filename}", generator |-> ""],
    [patterns |-> <<
        [source |-> "find (?:all )?files containing (?:the )?(?:text|string|pattern) (?P<pattern>\\S+)",
         groups |-> <<"pattern">>,
         regex  |-> <<Lit("find "), Opt(<<Lit("all ")>>), Lit("files containing "), Opt(<<Lit("the ")>>), Alt(<<<<Lit("text")>>, <<Lit("string")>>, <<Lit("pattern")>>>>), Lit(" "), Grp("pattern", "nonspace")>>],
        [source |-> "search for (?:all )?files containing (?:the )?(?:text|string|pattern) (?P<pattern>\\S+)",
         groups |-> <<"pattern">>,
         regex  |-> <<Lit("search for "), Opt(<<Lit("all ")>>), Lit("files containing "), Opt(<<Lit("the ")>>), Alt(<<<<Lit("text")>>, <<Lit("string")>>, <<Lit("pattern")>>>>), Lit(" "), Grp("pattern", "nonspace")>>],
        [source |-> "grep (?:for )?(?P<pattern>\\S+)",
         groups |-> <<"pattern">>,
         regex  |-> <<Lit("grep "), Opt(<<Lit("for ")>>), Grp("pattern", "nonspace")>>] >>,
     command |-> "grep -r {pattern} .", generator |-> ""],
    [patterns |-> <<
        [source |-> "(?:show|display) (?:the )?(?:system )?(?:cpu|processor) (?:information|info|usage|stats)",
         groups |-> <<>>,
         regex  |-> <<Alt(<<<<Lit("show")>>, <<Lit("display")>>>>), Lit(" "), Opt(<<Lit("the ")>>), Opt(<<Lit("system ")>>), Alt(<<<<Lit("cpu")>>, <<Lit("processor")>>>>), Lit(" "), Alt(<<<<Lit("information")>>, <<Lit("info")>>, <<Lit("usage")>>, <<Lit("stats")>>>>)>>],
        [source |-> "how (?:is|\\'s) (?:the )?(?:cpu|processor) (?:doing)?",
         groups |-> <<>>,
         regex  |-> <<Lit("how "), Alt(<<<<Lit("is")>>, <<Lit("'s")>>>>), Lit(" "), Opt(<<Lit("the ")>>), Alt(<<<<Lit("cpu")>>, <<Lit("processor")>>>>), Lit(" "), Opt(<<Lit("doing")>>)>>],
        [source |-> "what(?:\\'s| is) (?:the )?(?:cpu|processor) (?:usage|load)",
         groups |-> <<>>,
         regex  |-> <<Lit("what"), Alt(<<<<Lit("'s")>>, <<Lit(" is")>>>>), Lit(" "), Opt(<<Lit("the ")>>), Alt(<<<<Lit("cpu")>>, <<Lit("processor")>>>>), Lit(" "), Alt(<<<<Lit("usage")>>, <<Lit("load")>>>>)>>] >>,
     command |-> "cpu", generator |-> ""],
    [patterns |-> <<
        [source |-> "(?:show|display) (?:the )?(?:system )?memory (?:information|info|usage|stats)",
         groups |-> <<>>,
         regex  |-> <<Alt(<<<<Lit("show")>>, <<Lit("display")>>>>), Lit(" "), Opt(<<Lit("the ")>>), Opt(<<Lit("system ")>>), Lit("memory "), Alt(<<<<Lit("information")>>, <<Lit("info")>>, <<Lit("usage")>>, <<Lit("stats")>>>>)>>],
        [source |-> "how (?:is|\\'s) (?:the )?memory (?:doing)?",
         groups |-> <<>>,
         regex  |-> <<Lit("how "), Alt(<<<<Lit("is")>>, <<Lit("'s")>>>>), Lit(" "), Opt(<<Lit("the ")>>), Lit("memory "), Opt(<<Lit("doing")>>)>>],
        [source |-> "what(?:\\'s| is) (?:the )?memory (?:usage|load)",
         groups |-> <<>>,
         regex  |-> <<Lit("what"), Alt(<<<<Lit("'s")>>, <<Lit(" is")>>>>), Lit(" "), Opt(<<Lit("the ")>>), Lit("memory "), Alt(<<<<Lit("usage")>>, <<Lit("load")>>>>)>>] >>,
     command |-> "memory", generator |-> ""],
    [patterns |-> <<
        [source |-> "(?:show|display|list) (?:the )?(?:running )?processes",
         groups |-> <<>>,
         regex  |-> <<Alt(<<<<Lit("show")>>, <<Lit("display")>>, <<Lit("list")>>>>), Lit(" "), Opt(<<Lit("the ")>>), Opt(<<Lit("running ")>>), Lit("processes")>>],
        [source |-> "what processes are running",
         groups |-> <<>>,
         regex  |-> <<Lit("what processes are running")>>],
        [source |-> "what(?:\\'s| is) running",
         groups |-> <<>>,
         regex  |-> <<Lit("what"), Alt(<<<<Lit("'s")>>, <<Lit(" is")>>>>), Lit(" running")>>] >>,
     command |-> "processes", generator |-> ""],
    [patterns |-> <<
        [source |-> "(?:show|display) (?:the )?(?:system )?(?:information|info)",
         groups |-> <<>>,
         regex  |-> <<Alt(<<<<Lit("show")>>, <<Lit("display")>>>>), Lit(" "), Opt(<<Lit("the ")>>), Opt(<<Lit("system ")>>), Lit("info"), Alt(<<<<Lit("rmation")>>, <<>>>>)>>],
        [source |-> "(?:show|display) (?:the )?top (?:processes|process list)",
         groups |-> <<>>,
         regex  |-> <<Alt(<<<<Lit("show")>>, <<Lit("display")>>>>), Lit(" "), Opt(<<Lit("the ")>>), Lit("top process"), Alt(<<<<Lit("es")>>, <<Lit(" list")>>>>)>>],
        [source |-> "what(?:\\'s| is) (?:the )?(?:system )?(?:doing|status)",
         groups |-> <<>>,
         regex  |-> <<Lit("what"), Alt(<<<<Lit("'s")>>, <<Lit(" is")>>>>), Lit(" "), Opt(<<Lit("the ")>>), Opt(<<Lit("system ")>>), Alt(<<<<Lit("doing")>>, <<Lit("status")>>>>)>>] >>,
     command |-> "top", generator |-> ""],
    [patterns |-> <<
        [source |-> "create (?:a )?folder (?:called |named )?(?P<dirname>\\S+) and move all (?P<filetype>\\S+) files (?:in|into) it",
         groups |-> <<"dirname", "filetype">>,
         regex  |-> <<Lit("create "), Opt(<<Lit("a ")>>), Lit("folder "), Opt(<<Alt(<<<<Lit("called ")>>, <<Lit("named ")>>>>)>>), Grp("dirname", "nonspace"), Lit(" and move all "), Grp("filetype", "nonspace"), Lit(" files in"), Alt(<<<<>>, <<Lit("to")>>>>), Lit(" it")>>],
        [source |-> "move all (?P<filetype>\\S+) files (?:in)?to (?:a )?(?:new )?folder (?:called |named )?(?P<dirname>\\S+)",
         groups |-> <<"filetype", "dirname">>,
         regex  |-> <<Lit("move all "), Grp("filetype", "nonspace"), Lit(" files "), Opt(<<Lit("in")>>), Lit("to "), Opt(<<Lit("a ")>>), Opt(<<Lit("new ")>>), Lit("folder "), Opt(<<Alt(<<<<Lit("called ")>>, <<Lit("named ")>>>>)>>), Grp("dirname", "nonspace")>>] >>,
     command |-> "", generator |-> "move_into_folder"],
    [patterns |-> <<
        [source |-> "find and delete all (?P<filetype>\\S+) files",
         groups |-> <<"filetype">>,
         regex  |-> <<Lit("find and delete all "), Grp("filetype", "nonspace"), Lit(" files")>>],
        [source |-> "delete all (?P<filetype>\\S+) files",
         groups |-> <<"filetype">>,
         regex  |-> <<Lit("delete all "), Grp("filetype", "nonspace"), Lit(" files")>>] >>,
     command |-> "", generator |-> "delete_by_type"],
    [patterns |-> <<
        [source |-> "count (?:the )?(?:number of )?files in (?:the )?(?:directory|folder)(?: (?P<dirname>\\S+))?",
         groups |-> <<"dirname">>,
         regex  |-> <<Lit("count "), Opt(<<Lit("the ")>>), Opt(<<Lit("number of ")>>), Lit("files in "), Opt(<<Lit("the ")>>), Alt(<<<<Lit("directory")>>, <<Lit("folder")>>>>), Opt(<<Lit(" "), Grp("dirname", "nonspace")>>)>>] >>,
     command |-> "", generator |-> "count_files"],
    [patterns |-> <<
        [source |-> "create (?:a )?backup of (?:the )?file (?P<filename>\\S+)",
         groups |-> <<"filename">>,
         regex  |-> <<Lit("create "), Opt(<<Lit("a ")>>), Lit("backup of "), Opt(<<Lit("the ")>>), Lit("file "), Grp("filename", "nonspace")>>] >>,
     command |-> "", generator |-> "backup_file"],
    [patterns |-> <<
        [source |-> "compress (?:the )?(?:directory|folder) (?P<dirname>\\S+)",
         groups |-> <<"dirname">>,
         regex  |-> <<Lit("compress "), Opt(<<Lit("the ")>>), Alt(<<<<Lit("directory")>>, <<Lit("folder")>>>>), Lit(" "), Grp("dirname", "nonspace")>>] >>,
     command |-> "", generator |-> "compress_folder"] >>

\* the number of characters from position pos of s on that a group of the
\* class cls can take: \S+ stops at white space, .+ at a line end
RECURSIVE RunLen(_, _, _)
RunLen(s, pos, cls) ==
    IF pos > Len(s) THEN 0
    ELSE IF cls = "nonspace" /\ IsSpace(Ch(s, pos)) THEN 0
    ELSE IF cls = "any" /\ Ch(s, pos) = "\n" THEN 0
    ELSE 1 + RunLen(s, pos + 1, cls)

\* The ways the items match s from position pos on, in the order the
\* backtracking matcher of re tries them: each way is the position after
\* the match and the groups captured. caps holds the groups captured so far.
RECURSIVE Ways(_, _, _, _)
Ways(items, s, pos, caps) ==
    IF items = <<>> THEN <<[pos |-> pos, caps |-> caps]>>
    ELSE LET it   == Head(items)
             rest == Tail(items)
         IN  IF it.t = "lit"
             THEN IF pos + Len(it.s) - 1 <= Len(s) /\ SubSeq(s, pos, pos + Len(it.s) - 1) = it.s
                  THEN Ways(rest, s, pos + Len(it.s), caps)
                  ELSE <<>>
             ELSE IF it.t = "opt"
             THEN Ways(it.r \o rest, s, pos, caps) \o Ways(rest, s, pos, caps)
             ELSE IF it.t = "alt"
             THEN Flatten([i \in 1..Len(it.rs) |-> Ways(it.rs[i] \o rest, s, pos, caps)])
             ELSE LET n == RunLen(s, pos, it.cls)
                  IN  Flatten([k \in 1..n |->
                          Ways(rest, s, pos + (n - k + 1),
                               With(caps, it.name, Some(SubSeq(s, pos, pos + n - k))))])

\* re.match(pattern, text).groupdict(), as <<groups>>, or None when the
\* pattern does not match at the start of the text
re_match(pattern, text) ==
    LET none == [g \in {pattern.groups[i] : i \in 1..Len(pattern.groups)} |-> None]
        ways == Ways(pattern.regex, text, 1, none)
    IN  IF ways = <<>> THEN None ELSE Some(ways[1].caps)

\* str(v) of a captured group
Str(v) == IF v = None THEN "None" ELSE v[1]

\* the command generators of the table
Generate(generator, matches) ==
    IF generator = "move_into_folder"
    THEN <<"mkdir " \o Str(matches["dirname"]),
           "find . -maxdepth 1 -name \"*." \o Str(matches["filetype"]) \o "\" -exec mv {} "
               \o Str(matches["dirname"]) \o "/ \\;">>
    ELSE IF generator = "delete_by_type"
    THEN <<"find . -name \"*." \o Str(matches["filetype"]) \o "\" -delete">>
    ELSE IF generator = "count_files"
    THEN <<"ls -1 " \o (IF "dirname" \in DOMAIN matches THEN Str(matches["dirname"]) ELSE ".")
           \o " | wc -l">>
    ELSE IF generator = "backup_file"
    THEN <<"cp " \o Str(matches["filename"]) \o " " \o Str(matches["filename"]) \o ".bak">>
    ELSE <<"tar -czvf " \o Str(matches["dirname"]) \o ".tar.gz " \o Str(matches["dirname"])>>

\* the substitution of the captured groups into a command template, group
\* by group in the order of the pattern
RECURSIVE Substitute(_, _, _)
Substitute(command, groups, matches) ==
    IF groups = <<>> THEN command
    ELSE LET key   == Head(groups)
             value == matches[key]
             text  == IF value = None THEN "" ELSE value[1]
             quoted == IF Contains(text, " ") /\ ~StartsWith(text, "\"") /\ ~StartsWith(text, "'")
                       THEN "\"" \o text \o "\"" ELSE text
         IN  Substitute(IF text # "" THEN Replace(command, "{" \o key \o "}", quoted)
                        ELSE Replace(command, " {" \o key \o "}", ""),
                        Tail(groups), matches)

\* the patterns of the table in the order interpret tries them, each with
\* its rule
TableOrder ==
    Flatten([r \in 1..Len(COMMAND_PATTERNS) |->
                [k \in 1..Len(COMMAND_PATTERNS[r].patterns) |->
                    [rule |-> r, pattern |-> COMMAND_PATTERNS[r].patterns[k]]]])

\* a search of the table that lets the last matching pattern win
RECURSIVE LastMatch(_, _)
LastMatch(entries, text) ==
    IF entries = <<>> THEN None
    ELSE LET e == entries[Len(entries)]
             m == re_match(e.pattern, text)
             rule == COMMAND_PATTERNS[e.rule]
         IN  IF m = None THEN LastMatch(SubSeq(entries, 1, Len(entries) - 1), text)
             ELSE IF rule.generator # "" THEN Some(Generate(rule.generator, m[1]))
             ELSE Some(<<Substitute(rule.command, e.pattern.groups, m[1])>>)

\* the result of the first pattern of the sequence that matches, or None
RECURSIVE FirstMatch(_, _)
FirstMatch(entries, text) ==
    IF entries = <<>> THEN None
    ELSE LET e == Head(entries)
             m == re_match(e.pattern, text)
             rule == COMMAND_PATTERNS[e.rule]
         IN  IF m = None THEN FirstMatch(Tail(entries), text)
             ELSE IF rule.generator # "" THEN Some(Generate(rule.generator, m[1]))
             ELSE Some(<<Substitute(rule.command, e.pattern.groups, m[1])>>)

IsWordCh(c) == c # "" /\ Contains("abcdefghijklmnopqrstuvwxyzABCDEFGHIJKLMNOPQRSTUVWXYZ0123456789_", c)

RECURSIVE WordRun(_, _)
WordRun(s, pos) == IF pos <= Len(s) /\ IsWordCh(Ch(s, pos)) THEN 1 + WordRun(s, pos + 1) ELSE 0

\* re.sub(r'\(\?P<(\w+)>.*?\)', repl, s), where repl is 'X' (named FALSE)
\* or the name of the group (named TRUE)
RECURSIVE SubGroups(_, _)
SubGroups(s, named) ==
    LET k    == Find(s, "(?P<")
        n    == WordRun(s, k + 4)
        gt   == k + 4 + n
        tail == SubSeq(s, gt + 1, Len(s))
        c    == Find(tail, ")")
    IN  IF k = 0 THEN s
        ELSE IF n = 0 \/ Ch(s, gt) # ">" \/ c = 0 \/ Contains(SubSeq(tail, 1, c), "\n")
             THEN SubSeq(s, 1, k) \o SubGroups(SubSeq(s, k + 1, Len(s)), named)
        ELSE SubSeq(s, 1, k - 1)
             \o (IF named THEN SubSeq(s, k + 4, gt - 1) ELSE "X")
             \o SubGroups(SubSeq(tail, c + 1, Len(tail)), named)

Simplified(source) ==
    SubGroups(Replace(Replace(Replace(Replace(source, "(?:", ""), ")?", ""), "\\S+", "X"), ".+", "X"),
              FALSE)

Example(source) ==
    Replace(Replace(SubGroups(Replace(Replace(source, "(?:", ""), ")?", ""), TRUE),
                    "\\S+", "example"), ".+", "example")

\* a simplified pattern must be longer than this to count
TrivialLen == 10
\* the number of examples a suggestion shows
ExampleCount == 3

\* a simplified pattern counts when it is long enough and holds a word of
\* the text
IsNear(simplified, words) ==
    /\ Len(simplified) > TrivialLen
    /\ \E w \in 1..Len(words) : Contains(simplified, words[w])

\* the sources of the patterns, in the order of the table
Sources == [i \in 1..Len(TableOrder) |-> TableOrder[i].pattern.source]

\* the examples of the patterns that share a word with the text
similar_examples(text) ==
    [i \in 1..Len(SelectSeq(Sources, LAMBDA src : IsNear(Simplified(src), Split(text)))) |->
        Example(SelectSeq(Sources, LAMBDA src : IsNear(Simplified(src), Split(text)))[i])]

dangerous_phrases == <<"delete all", "remove all", "format disk", "wipe", "destroy">>

BlockedEcho == "echo 'This command was blocked for safety. Please use specific commands instead of general deletion/formatting commands.'"

\* interpret after the pattern table: first is what the first matching
\* pattern gave, near the examples of the similar patterns
Understood(text, first, near) ==
    IF first # None THEN first[1]
    ELSE IF StartsWith(text, "run ") \/ StartsWith(text, "execute ")
    THEN <<SubSeq(text, Find(text, " ") + 1, Len(text))>>
    ELSE IF \E i \in 1..Len(dangerous_phrases) : Contains(text, dangerous_phrases[i])
    THEN <<BlockedEcho>>
    ELSE IF near # <<>>
    THEN <<"echo 'Command not understood. Try something like: "
           \o Join(Take(near, ExampleCount), ", ") \o "'">>
    ELSE <<"echo 'Command not understood. Type \"help\" to see available commands or use \"!help\" for natural language examples.'">>

InterpretText(text) == Understood(text, FirstMatch(TableOrder, text), similar_examples(text))

\* an interpret without the test for empty input
interpret_any(nl_command) == InterpretText(Lower(Strip(nl_command)))

\* interpret(nl_command)
interpret(nl_command) ==
    IF nl_command = "" \/ Strip(nl_command) = "" THEN <<"help">>
    ELSE InterpretText(Lower(Strip(nl_command)))

-----------------------------------------------------------------------------
(* The server: main.py. The Socket.IO server runs each 'command' event in  *)
(* a handler of its own; the handlers of Threads may be active at once.    *)
(* A handler gives way to the others where it waits for the outside world: *)
(* at the history file, around execute_command and at socketio.emit.       *)

Threads == {"w1", "w2"}

\* the history manager's state, and the file system with the processes started
hist == <<_lock, _history_cache, _full_history, history_file>>
disk == <<dirs, files, popen>>

\* the tab ids the clients send; an event without one is for 'default'
TabIds == {"t1"}
DefaultTab == "default"

\* DEFAULT_DIR = os.path.expanduser("~")
DEFAULT_DIR == HOME

\* the file system when the server starts
InitDirs == {"/", "/h", "/h/a"}
InitFiles == ("/h/f" :> "hello\n")

\* the command lines the clients send
SessionLines ==
    {"  ", "pwd", "cd a", "cd ..", "cd", "CD .", "cd nosuch",
     "cd f", "rm -r a", "lss", "df", "!cd to a"}

EventsOf(lines) == [command : lines, tab_id : {None} \union {Some(t) : t \in TabIds}]
Events == EventsOf(SessionLines)
HistoryEvents == EventsOf({"  ", "pwd", "!cd to a"})

\* command[1:].strip() of a natural-language line
NlText(command) == Strip(SubSeq(command, 2, Len(command)))

\* the natural-language requests of the clients: changes of directory, a
\* request of two commands, and a text that is not understood
RequestLines ==
    {"!cd to a", "!go back", "!move all txt files to folder d", "!where am i"}

\* nlp_interpreter.interpret on the natural-language texts the clients send
Interpreted ==
    [text \in {NlText(Strip(line)) :
                  line \in {l \in SessionLines \union RequestLines : StartsWith(Strip(l), "!")}}
        |-> interpret(text)]

\* the locals of a handler that handles no event
Idle == [tab_id |-> "", command |-> "", current_dir |-> "", queue |-> <<>>,
         result |-> [output |-> "", new_dir |-> None]]

Output(text, tab_id) == [event |-> "output", tab_id |-> tab_id, data |-> text]
DirectoryChange(dir, tab_id) == [event |-> "directory_change", tab_id |-> tab_id, data |-> dir]

\* data.get('tab_id', 'default')
TabOf(data) == IF data.tab_id = None THEN DefaultTab ELSE data.tab_id[1]

\* TAB_DIRECTORIES after get_tab_directory(tab_id)
get_tab_directory(tabs, tab_id) ==
    IF tab_id \notin DOMAIN tabs THEN With(tabs, tab_id, DEFAULT_DIR) ELSE tabs

\* result.get('new_dir') is true
HasNewDir(result) == result.new_dir # None /\ result.new_dir[1] # ""

\* command.startswith('!'): the branch of handle_command after the history
Branch(command) == IF StartsWith(command, "!") THEN "interpret" ELSE "execute"

\* The start of handle_command up to the history: the command is stripped,
\* an empty one ends the handler, and the tab's directory is looked up.
Accept(th, data, next) ==
    LET command == Strip(data.command)
        tab_id  == TabOf(data)
        tabs    == get_tab_directory(TAB_DIRECTORIES, tab_id)
    IN  /\ pc[th] = "idle"
        /\ accepted < MaxEvents
        /\ accepted' = accepted + 1
        /\ emitted' = [emitted EXCEPT ![th] = <<>>]
        /\ IF command = ""
           THEN /\ req' = [req EXCEPT ![th] = Idle]
                /\ UNCHANGED <<pc, TAB_DIRECTORIES>>
           ELSE /\ TAB_DIRECTORIES' = tabs
                /\ req' = [req EXCEPT ![th] = [Idle EXCEPT !.tab_id = tab_id,
                                                           !.command = command,
                                                           !.current_dir = tabs[tab_id]]]
                /\ pc' = [pc EXCEPT ![th] = next]
        /\ UNCHANGED <<disk, hist, call>>

\* handle_command up to its branch, history_manager.add_command returning
Begin(th, data) == Accept(th, data, Branch(Strip(data.command)))

\* handle_command up to its call of history_manager.add_command
Record(th, data) == Accept(th, data, "history")

\* the handler after its call of execute_command came to result: the call
\* has acted on the file system, and the handler goes on with the result,
\* or emits the exception that left the call and ends
Ran(th, result, next, failed) ==
    /\ dirs' = result.dirs
    /\ files' = result.files
    /\ popen' = popen \union {result.popen[i] : i \in 1..Len(result.popen)}
    /\ IF result.raised
       THEN /\ emitted' = [emitted EXCEPT ![th] =
                              Append(@, Output(failed \o result.output, req[th].tab_id))]
            /\ req' = [req EXCEPT ![th] = Idle]
            /\ pc' = [pc EXCEPT ![th] = "idle"]
       ELSE /\ req' = [req EXCEPT ![th].result =
                              [output |-> result.output, new_dir |-> result.new_dir]]
            /\ pc' = [pc EXCEPT ![th] = next]
            /\ UNCHANGED emitted
    /\ UNCHANGED <<TAB_DIRECTORIES, accepted, hist, call>>

\* the call of execute_command for the line, in the handler's current_dir
Run(th, line, sh, next, failed) ==
    Ran(th, execute_command(line, req[th].current_dir, dirs, files, sh), next, failed)

\* the regular branch: execute_command(command, current_dir)
Execute(th) ==
    /\ pc[th] = "execute"
    /\ \E sh \in ShellOutcomes :
           Run(th, req[th].command, sh, "finish", "Command execution error: ")

\* the events a handler emits for a result, and the tab's directory after it
Announce(th) ==
    LET r == req[th]
    IN  IF HasNewDir(r.result)
        THEN <<Output(r.result.output, r.tab_id), DirectoryChange(r.result.new_dir[1], r.tab_id)>>
        ELSE <<Output(r.result.output, r.tab_id)>>

\* a store that keeps one current directory for all the tabs
StoreEveryTab(th) ==
    IF HasNewDir(req[th].result)
    THEN [t \in DOMAIN TAB_DIRECTORIES |-> req[th].result.new_dir[1]]
    ELSE TAB_DIRECTORIES

Store(th) ==
    IF HasNewDir(req[th].result)
    THEN With(TAB_DIRECTORIES, req[th].tab_id, req[th].result.new_dir[1])
    ELSE TAB_DIRECTORIES

\* the regular branch after execute_command: the output is emitted and a
\* new directory is stored for the tab and announced
Finish(th) ==
    /\ pc[th] = "finish"
    /\ emitted' = [emitted EXCEPT ![th] = @ \o Announce(th)]
    /\ TAB_DIRECTORIES' = Store(th)
    /\ req' = [req EXCEPT ![th] = Idle]
    /\ pc' = [pc EXCEPT ![th] = "idle"]
    /\ UNCHANGED <<disk, accepted, hist, call>>

\* the sequence from its last element to its first
Reverse(seq) == [i \in 1..Len(seq) |-> seq[Len(seq) + 1 - i]]

\* a natural-language branch whose loop takes the commands last to first
InterpretingBackwards(th, nl_command, interpreted_commands) ==
    /\ emitted' = [emitted EXCEPT ![th] =
                      Append(@, Output("Interpreting: " \o nl_command \o "\nExecuting: "
                                       \o Join(interpreted_commands, ", "), req[th].tab_id))]
    /\ req' = [req EXCEPT ![th].queue = Reverse(interpreted_commands)]
    /\ pc' = [pc EXCEPT ![th] = "nl_execute"]
    /\ UNCHANGED <<TAB_DIRECTORIES, disk, accepted, hist, call>>

\* the natural-language branch after interpret: the interpretation is
\* emitted and the loop over its commands begins
Interpreting(th, nl_command, interpreted_commands) ==
    /\ emitted' = [emitted EXCEPT ![th] =
                      Append(@, Output("Interpreting: " \o nl_command \o "\nExecuting: "
                                       \o Join(interpreted_commands, ", "), req[th].tab_id))]
    /\ req' = [req EXCEPT ![th].queue = interpreted_commands]
    /\ pc' = [pc EXCEPT ![th] = "nl_execute"]
    /\ UNCHANGED <<TAB_DIRECTORIES, disk, accepted, hist, call>>

\* the natural-language branch: the text after '!' is interpreted
Interpret(th) ==
    /\ pc[th] = "interpret"
    /\ Interpreting(th, NlText(req[th].command), Interpreted[NlText(req[th].command)])

\* the loop over the interpreted commands: execute_command(cmd, current_dir)
NlExecute(th) ==
    /\ pc[th] = "nl_execute"
    /\ \E sh \in ShellOutcomes :
           Run(th, Head(req[th].queue), sh, "nl_finish", "Error interpreting command: ")

\* the loop after execute_command: the output is emitted, a new directory
\* is stored, announced and taken as the current_dir of the next command
NlFinish(th) ==
    LET rest == Tail(req[th].queue)
    IN  /\ pc[th] = "nl_finish"
        /\ emitted' = [emitted EXCEPT ![th] = @ \o Announce(th)]
        /\ TAB_DIRECTORIES' = Store(th)
        /\ IF rest = <<>>
           THEN /\ req' = [req EXCEPT ![th] = Idle]
                /\ pc' = [pc EXCEPT ![th] = "idle"]
           ELSE /\ req' = [req EXCEPT ![th].queue = rest,
                                      ![th].current_dir =
                                          IF HasNewDir(req[th].result) THEN Store(th)[req[th].tab_id]
                                          ELSE @]
                /\ pc' = [pc EXCEPT ![th] = "nl_execute"]
        /\ UNCHANGED <<disk, accepted, hist, call>>

-----------------------------------------------------------------------------
(* The history manager: utils/history_manager.py. An entry's timestamp is  *)
(* left out. _lock is a threading.Lock: acquiring it waits until it is     *)
(* free, whoever holds it.                                                 *)

EmptyMap == [x \in {} |-> ""]

Entry(command, tab_id) == [command |-> command, tab_id |-> tab_id]

\* data/history.json as the server finds it when it starts: as
\* _ensure_history_file writes it, or with one command of an earlier run
FreshHistory == [tabs |-> EmptyMap, full_history |-> <<>>]
HistoryFiles == {FreshHistory,
                 [tabs |-> ("t1" :> <<"ls">>), full_history |-> <<Entry("ls", "t1")>>]}

\* str(e) of the OSError of os.makedirs or open when the data directory
\* cannot be written
EACCES == "[Errno 13] Permission denied"

\* handle_command's outermost except: the error is emitted and the handler ends
InternalError(th, e) ==
    /\ emitted' = [emitted EXCEPT ![th] =
                      Append(@, Output("Internal error: " \o e, req[th].tab_id))]
    /\ req' = [req EXCEPT ![th] = Idle]
    /\ pc' = [pc EXCEPT ![th] = "idle"]

\* 'with _lock:' once the lock is free. In add_command the handler takes
\* the lock, loads the history if the cache is empty, appends the command
\* for its tab and calls _save_history. In _save_history it writes the
\* file and leaves both with-blocks, the second of them with the lock
\* already released.
WithLock(th) ==
    LET tab_id == req[th].tab_id
        load   == DOMAIN _history_cache = {}
        cache  == IF load THEN history_file.tabs ELSE _history_cache
        full   == IF load THEN history_file.full_history ELSE _full_history
        tabs   == IF tab_id \in DOMAIN cache THEN cache ELSE With(cache, tab_id, <<>>)
    IN  /\ pc[th] \in {"history", "_save_history"}
        /\ _lock = "free"
        /\ IF pc[th] = "history"
           THEN \E writable \in BOOLEAN :
                    IF load /\ ~writable
                    THEN /\ InternalError(th, EACCES)
                         /\ UNCHANGED <<_lock, _history_cache, _full_history, history_file>>
                    ELSE /\ _lock' = th
                         /\ _history_cache' = With(tabs, tab_id, Append(tabs[tab_id], req[th].command))
                         /\ _full_history' = Append(full, Entry(req[th].command, tab_id))
                         /\ pc' = [pc EXCEPT ![th] = "_ensure_history_file"]
                         /\ UNCHANGED <<history_file, req, emitted>>
           ELSE /\ history_file' = [tabs |-> _history_cache, full_history |-> _full_history]
                /\ InternalError(th, "release unlocked lock")
                /\ UNCHANGED <<_lock, _history_cache, _full_history>>
        /\ UNCHANGED <<TAB_DIRECTORIES, disk, accepted, call>>

\* _save_history up to its 'with _lock:': _ensure_history_file returns, and
\* the handler waits for the lock, or raises, and add_command's with-block
\* releases the lock on the way out
EnsureFile(th) ==
    /\ pc[th] = "_ensure_history_file"
    /\ \E writable \in BOOLEAN :
           IF writable
           THEN /\ pc' = [pc EXCEPT ![th] = "_save_history"]
                /\ UNCHANGED <<_lock, req, emitted>>
           ELSE /\ _lock' = "free"
                /\ InternalError(th, EACCES)
    /\ UNCHANGED <<TAB_DIRECTORIES, disk, accepted, _history_cache, _full_history,
                   history_file, call>>

\* the 'history' event of handle_get_history
History(history, tab_id) == [event |-> "history", tab_id |-> tab_id, data |-> history]

\* the 'get_history' events the clients send
HistoryRequests == [tab_id : {None} \union {Some(t) : t \in TabIds}]

\* handle_get_history up to its call of history_manager.get_history
Ask(th, data) ==
    /\ pc[th] = "idle"
    /\ accepted < MaxEvents
    /\ accepted' = accepted + 1
    /\ emitted' = [emitted EXCEPT ![th] = <<>>]
    /\ req' = [req EXCEPT ![th] = [Idle EXCEPT !.tab_id = TabOf(data)]]
    /\ pc' = [pc EXCEPT ![th] = "get_history"]
    /\ UNCHANGED <<TAB_DIRECTORIES, disk, hist, call>>

\* _history_cache.get(tab_id, [])
TabHistory(cache, tab_id) == IF tab_id \in DOMAIN cache THEN cache[tab_id] ELSE <<>>

\* get_history once the lock is free: the history is loaded if the cache is
\* empty, the commands of the tab are returned and handle_get_history emits
\* them; an error of the load leaves the handler with nothing emitted
GetHistory(th) ==
    /\ pc[th] = "get_history"
    /\ _lock = "free"
    /\ \E writable \in BOOLEAN :
           IF DOMAIN _history_cache = {} /\ ~writable
           THEN UNCHANGED <<_history_cache, _full_history, emitted>>
           ELSE /\ _history_cache' = IF DOMAIN _history_cache = {} THEN history_file.tabs
                                     ELSE _history_cache
                /\ _full_history' = IF DOMAIN _history_cache = {} THEN history_file.full_history
                                    ELSE _full_history
                /\ emitted' = [emitted EXCEPT ![th] =
                                  Append(@, History(TabHistory(_history_cache', req[th].tab_id),
                                                    req[th].tab_id))]
    /\ req' = [req EXCEPT ![th] = Idle]
    /\ pc' = [pc EXCEPT ![th] = "idle"]
    /\ UNCHANGED <<TAB_DIRECTORIES, disk, accepted, _lock, history_file, call>>

-----------------------------------------------------------------------------
(* The server's behaviours. *)

\* call is the call of a function of the program made apart from the
\* server: the function, its arguments, and what it has returned so far
NoCall == [fn |-> ""]

\* the state when the server has started on the history file: the module
\* load of history_manager has read it
InitWith(file, c) ==
    /\ TAB_DIRECTORIES = EmptyMap
    /\ dirs = InitDirs
    /\ files = InitFiles
    /\ popen = {}
    /\ pc = [th \in Threads |-> "idle"]
    /\ req = [th \in Threads |-> Idle]
    /\ emitted = [th \in Threads |-> <<>>]
    /\ accepted = 0
    /\ _lock = "free"
    /\ history_file = file
    /\ _history_cache = file.tabs
    /\ _full_history = file.full_history
    /\ call = c

InitServer(file) == InitWith(file, NoCall)

\* The server with every call of history_manager.add_command returning.
Init == InitServer(FreshHistory)

Next ==
    \E th \in Threads :
        \/ \E data \in Events : Begin(th, data)
        \/ Execute(th)
        \/ Finish(th)
        \/ Interpret(th)
        \/ NlExecute(th)
        \/ NlFinish(th)

Spec == Init /\ [][Next]_vars

\* The server on natural-language requests alone, every call of
\* history_manager.add_command returning.
NextRequests ==
    \E th \in Threads :
        \/ \E data \in EventsOf(RequestLines) : Begin(th, data)
        \/ Interpret(th)
        \/ NlExecute(th)
        \/ NlFinish(th)

SpecRequests == Init /\ [][NextRequests]_vars

\* The server with the history manager as it is written.
InitHistory == \E file \in HistoryFiles : InitServer(file)

NextHistory ==
    \E th \in Threads :
        \/ \E data \in HistoryEvents : Record(th, data)
        \/ WithLock(th)
        \/ EnsureFile(th)
        \/ \E data \in HistoryRequests : Ask(th, data)
        \/ GetHistory(th)

SpecHistory == InitHistory /\ [][NextHistory]_vars

\* Every handler thread that can take a step is scheduled in the end.
FairSpecHistory ==
    SpecHistory /\ \A th \in Threads :
        WF_vars(WithLock(th)) /\ WF_vars(EnsureFile(th)) /\ WF_vars(GetHistory(th))

-----------------------------------------------------------------------------
(* execute_command on its own: one call, of a command line in a working    *)
(* directory, on the file system of the start.                             *)

\* command lines of the built-ins that take operands with an argument -x
\* that no built-in knows, each with the line without that argument
FlagLines ==
    ("ls -x a" :> "ls a") @@ ("cd -x a" :> "cd a") @@ ("mkdir -x x" :> "mkdir x")
    @@ ("rmdir -x a" :> "rmdir a") @@ ("rm -x f" :> "rm f") @@ ("cp -x f g" :> "cp f g")
    @@ ("mv -x f g" :> "mv f g") @@ ("cat -x f" :> "cat f") @@ ("touch -x t" :> "touch t")
    @@ ("grep -x hello f" :> "grep hello f") @@ ("find -x . -name f" :> "find . -name f")

\* the command lines of the calls: every name of AVAILABLE_COMMANDS, the
\* built-ins with operands, unknown names, and lines for the shell
DispatchLines ==
    {CommandNames[i] : i \in 1..Len(CommandNames)}
    \union
    {"", "   ", "LS -a", "ls nosuch", "cd a", "cd ..", "cd nosuch", "cd f", "CD .",
     "pwd x", "mkdir x", "mkdir a", "rmdir a", "rmdir f", "rm f", "rm a", "rm -r a",
     "rm -rf /", "cp f g", "cp -r -R", "cp a b", "mv f g", "mv -f -v", "cat f",
     "cat nosuch", "echo hi", "touch t", "grep hello f", "find . -name f",
     "help ls", "history 5", "test", "lss", "df", "uname -a", "git add x",
     "dd if=x", "DD if=x", "mkfs x", "Format c:", "sudo rm -rf /", "sudo rm -rf /*",
     "adduser bob", "ls a", "touch t", "find . -name f",
     "rm -rf /h/a", "rm -rf /nosuch", "echo format c:", "cat dd"}
    \union DOMAIN FlagLines

\* the working directories of the calls
DispatchDirs == {"/h", "/h/a", "/nosuch"}

NoResult == Result("", None, {}, EmptyMap, <<>>, "")

ExecuteCall(command, current_dir) ==
    [fn |-> "execute_command", command |-> command, current_dir |-> current_dir,
     returned |-> FALSE, result |-> NoResult]

InitDispatch ==
    \E command \in DispatchLines : \E current_dir \in DispatchDirs :
        InitWith(FreshHistory, ExecuteCall(command, current_dir))

\* the call returns result, having acted on the file system
Returned(result) ==
    /\ call' = [call EXCEPT !.returned = TRUE, !.result = result]
    /\ dirs' = result.dirs
    /\ files' = result.files
    /\ popen' = popen \union {result.popen[i] : i \in 1..Len(result.popen)}
    /\ UNCHANGED <<TAB_DIRECTORIES, pc, req, emitted, accepted, hist>>

\* execute_command(command, current_dir)
Call ==
    /\ call.fn = "execute_command"
    /\ ~call.returned
    /\ \E sh \in ShellOutcomes :
           Returned(execute_command(call.command, call.current_dir, dirs, files, sh))

NextDispatch == Call

SpecDispatch == InitDispatch /\ [][NextDispatch]_vars

-----------------------------------------------------------------------------
(* execute_command called again and again: command lines of the built-ins  *)
(* that act on files, one after the other in one working directory, each   *)
(* on the file system the lines before it have left.                       *)

FsLines ==
    {"mkdir x", "mkdir -p x", "mkdir a x", "mkdir p/q", "mkdir -p p/q", "mkdir f", "mkdir -p f",
     "touch x/y", "touch t", "touch f", "touch a t", "cat t", "cat f", "cat nosuch f",
     "rm nosuch", "rm -f nosuch", "rm -rf nosuch", "rm a", "rm -f a", "rm -r a", "rm -r x",
     "rm nosuch f"}

FsCall(current_dir) ==
    [fn |-> "lines", current_dir |-> current_dir, count |-> 0, line |-> "", output |-> ""]

InitLines == InitWith(FreshHistory, FsCall("/h"))

\* the call of the line has returned result, having acted on the file system
Answered(line, result) ==
    /\ call' = [call EXCEPT !.count = @ + 1, !.line = line, !.output = result.output]
    /\ dirs' = result.dirs
    /\ files' = result.files
    /\ popen' = popen \union {result.popen[i] : i \in 1..Len(result.popen)}
    /\ UNCHANGED <<TAB_DIRECTORIES, pc, req, emitted, accepted, hist>>

\* execute_command(line, current_dir) for one more line
RunNext ==
    /\ call.fn = "lines"
    /\ call.count < MaxLines
    /\ \E line \in FsLines : \E sh \in ShellOutcomes :
           Answered(line, execute_command(line, call.current_dir, dirs, files, sh))

NextLines == RunNext

SpecLines == InitLines /\ [][NextLines]_vars

-----------------------------------------------------------------------------
(* get_autocomplete_suggestions, called for one partial command in one     *)
(* working directory.                                                      *)

\* sorted(seq) for a list of strings
RECURSIVE Insert(_, _)
Insert(x, seq) ==
    IF seq = <<>> THEN <<x>>
    ELSE IF StrLess(x, Head(seq)) THEN <<x>> \o seq
    ELSE <<Head(seq)>> \o Insert(x, Tail(seq))

\* the list as it is
unsorted(seq) == seq

RECURSIVE sorted(_)
sorted(seq) == IF seq = <<>> THEN <<>> ELSE Insert(Head(seq), sorted(Tail(seq)))

\* the commands that take files and directories as arguments
file_commands ==
    {"ls", "cd", "cat", "rm", "cp", "mv", "mkdir", "rmdir", "touch", "grep", "find"}

\* the flags of the commands that take flags
flag_commands ==
    [cmd \in {"ls", "rm", "cp", "grep", "find"} |->
        CASE cmd = "ls" -> <<"-a", "-l", "-la", "-al">>
          [] cmd = "rm" -> <<"-r", "-f", "-rf">>
          [] cmd = "cp" -> <<"-r", "-R">>
          [] cmd = "grep" -> <<"-i", "-r", "-v", "-n">>
          [] cmd = "find" -> <<"-name", "-type", "-size">>]

\* the arguments of the similarity search of get_autocomplete_suggestions
CompleteCount == 5
CompleteCutoff == 50

\* the items of the list that start with the prefix, in the list's order
WithPrefix(items, prefix) == SelectSeq(items, LAMBDA item : StartsWith(item, prefix))

\* the suggestions for a command name
CompleteName(suggestions, cmd_prefix) ==
    IF suggestions # <<>> THEN suggestions
    ELSE get_close_matches(cmd_prefix, AVAILABLE_COMMANDS, CompleteCount, CompleteCutoff)

\* base_dir, the directory that is listed for last_part
BaseDir(last_part, current_dir) ==
    IF isabs(last_part)
    THEN IF dirname(last_part) = "" THEN "/" ELSE dirname(last_part)
    ELSE IF dirname(last_part) # "" THEN path_join(current_dir, dirname(last_part))
    ELSE current_dir

\* prefix, the start of the names that are suggested for last_part
NamePrefix(last_part) ==
    IF isabs(last_part) \/ dirname(last_part) # "" THEN basename(last_part) ELSE last_part

\* the suggestion for one item of the listing
CompleteItem(ds, fs, base_dir, last_part, item) ==
    IF isdir(ds, fs, path_join(base_dir, item))
    THEN path_join(dirname(last_part), item) \o "/"
    ELSE path_join(dirname(last_part), item)

CompleteItems(ds, fs, base_dir, last_part, items) ==
    [i \in 1..Len(items) |-> CompleteItem(ds, fs, base_dir, last_part, items[i])]

\* What os.listdir(base_dir) can do: return the names in an order of the
\* host's choosing, or raise.
Orders(S) == {seq \in [1..Cardinality(S) -> S] : \A x \in S : \E i \in DOMAIN seq : seq[i] = x}

Listed(err, names) == [err |-> err, names |-> names]

os_listdir(ds, fs, base_dir) ==
    IF ~exists(ds, fs, base_dir) THEN {Listed("FileNotFoundError", <<>>)}
    ELSE IF ~isdir(ds, fs, base_dir) THEN {Listed("NotADirectoryError", <<>>)}
    ELSE {Listed("", names) : names \in Orders(ListDir(ds, fs, Resolve(ds, fs, base_dir)))}
             \union {Listed("PermissionError", <<>>)}

\* the suggestions for the last argument of a command
CompleteArgs(cmd, last_part, base_dir, ds, fs, listed) ==
    IF cmd \in DOMAIN flag_commands /\ StartsWith(last_part, "-")
    THEN WithPrefix(flag_commands[cmd], last_part)
    ELSE IF cmd \in file_commands /\ ~StartsWith(last_part, "-") /\ listed.err = ""
    THEN CompleteItems(ds, fs, base_dir, last_part,
                       WithPrefix(listed.names, NamePrefix(last_part)))
    ELSE <<>>

CompleteParts(parts, current_dir, ds, fs, listed) ==
    IF parts = <<>> THEN sorted(CommandNames)
    ELSE IF Len(parts) = 1
    THEN sorted(CompleteName(WithPrefix(CommandNames, Lower(parts[1])), Lower(parts[1])))
    ELSE sorted(CompleteArgs(Lower(parts[1]), parts[Len(parts)],
                             BaseDir(parts[Len(parts)], current_dir), ds, fs, listed))

\* get_autocomplete_suggestions(partial_command, current_dir), listed being
\* what os.listdir does if it is called
get_autocomplete_suggestions(partial_command, current_dir, ds, fs, listed) ==
    IF Strip(partial_command) = "" THEN sorted(CommandNames)
    ELSE CompleteParts(Split(partial_command), current_dir, ds, fs, listed)

\* the directory that the call lists, "" when it lists none
ListedDir(parts, current_dir) ==
    IF Len(parts) < 2 THEN ""
    ELSE IF Lower(parts[1]) \in DOMAIN flag_commands /\ StartsWith(parts[Len(parts)], "-") THEN ""
    ELSE IF Lower(parts[1]) \in file_commands /\ ~StartsWith(parts[Len(parts)], "-")
    THEN BaseDir(parts[Len(parts)], current_dir)
    ELSE ""

\* the partial commands of the autocomplete requests
Partials ==
    {"", " ", "l", "L", "c", "C", "m", "p", "h", "e", "t", "r", "ls", "cd ", "lss", "gerp",
     "sl", "mkdri", "xyz", "q", "histroy", "ls -", "ls -l", "LS -a", "rm -", "rm -r", "cp -",
     "grep -", "find -", "find -t", "cat -", "echo -", "ls a", "cat f", "cat x", "ls /h/",
     "ls /h/a", "ls /", "ls a/", "cat f/", "cat ./", "cat ../h/f", "cat /nosuch/x",
     "echo a", "cd a f", "cp f a"}

CompleteCall(partial_command, current_dir) ==
    [fn |-> "get_autocomplete_suggestions", partial_command |-> partial_command,
     current_dir |-> current_dir, returned |-> FALSE, listdir |-> "", suggestions |-> <<>>]

InitComplete ==
    \E partial_command \in Partials : \E current_dir \in DispatchDirs :
        InitWith(FreshHistory, CompleteCall(partial_command, current_dir))

\* the call returns the suggestions
Suggested(listed, suggestions) ==
    /\ call' = [call EXCEPT !.returned = TRUE, !.listdir = listed.err,
                            !.suggestions = suggestions]
    /\ UNCHANGED <<TAB_DIRECTORIES, dirs, files, popen, pc, req, emitted, accepted, hist>>

\* get_autocomplete_suggestions(partial_command, current_dir)
Complete ==
    /\ call.fn = "get_autocomplete_suggestions"
    /\ ~call.returned
    /\ \E listed \in (IF ListedDir(Split(call.partial_command), call.current_dir) = ""
                       THEN {Listed("", <<>>)}
                       ELSE os_listdir(dirs, files,
                                       ListedDir(Split(call.partial_command),
                                                 call.current_dir))) :
           Suggested(listed, get_autocomplete_suggestions(call.partial_command,
                                                          call.current_dir, dirs, files,
                                                          listed))

NextComplete == Complete

SpecComplete == InitComplete /\ [][NextComplete]_vars

-----------------------------------------------------------------------------
(* interpret on its own, and the commands it returns executed one after    *)
(* the other as the loop of handle_command executes them.                  *)

\* the texts after '!', as handle_command passes them to interpret
NlTexts ==
    {"", "rm -rf /", "run rm -rf /", "execute rm -rf /", "delete rm -rf /",
     "delete all files", "remove all files", "delete all", "remove all",
     "format disk", "format the disk", "wipe the disk", "run wipe disk", "wipe",
     "destroy everything", "execute destroy a", "Delete All my files",
     "delete file f", "remove directory a", "create file x", "make a new directory d",
     "cd to a", "go back", "go home", "show current directory", "list files",
     "show the files in the directory a", "copy f to g", "move f to a",
     "backup file f", "count files in a", "show me the contents of file f",
     "hello there", "run ls", "execute pwd", "find all files named f",
     "  ", "create file example.txt", "please create file x", "delete all txt files",
     "find and delete all txt files", "run LS -La", "Execute  Echo Hi",
     "create folder logs and move all txt files into it",
     "move all txt files into folder logs", "count files in directory",
     "count files in directory docs", "count the number of files in the folder"}

InterpretCall(text, current_dir) ==
    [fn |-> "interpret", text |-> text, current_dir |-> current_dir,
     returned |-> FALSE, interpreted |-> <<>>, queue |-> <<>>, outputs |-> <<>>]

InitNL ==
    \E text \in NlTexts : \E current_dir \in {"/h", "/h/a"} :
        InitWith(FreshHistory, InterpretCall(text, current_dir))

\* interpreted_commands = nlp_interpreter.interpret(nl_command)
Translate ==
    /\ call.fn = "interpret"
    /\ ~call.returned
    /\ call' = [call EXCEPT !.returned = TRUE,
                            !.interpreted = interpret(call.text),
                            !.queue = interpret(call.text)]
    /\ UNCHANGED <<TAB_DIRECTORIES, disk, pc, req, emitted, accepted, hist>>

\* one round of the loop over the interpreted commands: the command has
\* acted on the file system and a new directory is the next one's current_dir
Looped(result) ==
    /\ call' = [call EXCEPT !.queue = Tail(@),
                            !.outputs = Append(@, result.output),
                            !.current_dir = IF HasNewDir(result) THEN result.new_dir[1] ELSE @]
    /\ dirs' = result.dirs
    /\ files' = result.files
    /\ popen' = popen \union {result.popen[i] : i \in 1..Len(result.popen)}
    /\ UNCHANGED <<TAB_DIRECTORIES, pc, req, emitted, accepted, hist>>

RunLine ==
    /\ call.fn = "interpret"
    /\ call.returned
    /\ call.queue # <<>>
    /\ \E sh \in ShellOutcomes :
           Looped(execute_command(Head(call.queue), call.current_dir, dirs, files, sh))

NextNL == Translate \/ RunLine

SpecNL == InitNL /\ [][NextNL]_vars

-----------------------------------------------------------------------------
(* The properties of the server, checked under Spec and FairSpecHistory.   *)

\* the tabs the clients name
Tabs == TabIds \union {DefaultTab}

\* the handler th has emitted an 'output' event for the tab
HasOutput(th, tab_id) ==
    \E i \in 1..Len(emitted[th]) :
        emitted[th][i].event = "output" /\ emitted[th][i].tab_id = tab_id

\* C1: every 'command' event whose command is not empty after trimming is
\* answered in the end by at least one 'output' event with the event's
\* tab_id: a handler that has reached the history step for a tab emits an
\* output for that tab.
C1_OutputEventually ==
    \A th \in Threads : \A tab_id \in Tabs :
        (pc[th] = "history" /\ req[th].tab_id = tab_id) ~> HasOutput(th, tab_id)

\* the handler th has just appended its command for its tab
Appended(th) ==
    /\ pc[th] = "_ensure_history_file"
    /\ _full_history # <<>>
    /\ _full_history[Len(_full_history)] = Entry(req[th].command, req[th].tab_id)
    /\ req[th].tab_id \in DOMAIN _history_cache
    /\ _history_cache[req[th].tab_id] # <<>>
    /\ _history_cache[req[th].tab_id][Len(_history_cache[req[th].tab_id])] = req[th].command

\* C19: every command line that is not empty and that handle_command has
\* accepted is appended to the history with its tab id: a handler that has
\* come to add_command with its command, the history being in memory, comes
\* to have appended the command as the last one of its tab.
C19_EveryCommandRecorded ==
    \A th \in Threads :
        (pc[th] = "history" /\ DOMAIN _history_cache # {}) ~> Appended(th)

\* C26: every call of history_manager.add_command returns in the end with
\* _lock released, so that a get_history from any tab is never blocked: a
\* lock that a handler holds becomes free, and a handler that waits in
\* get_history comes back from it.
C26_LockReleased ==
    \A th \in Threads :
        /\ (_lock = th) ~> (_lock = "free")
        /\ (pc[th] = "get_history") ~> (pc[th] = "idle")

\* The history in memory only grows, and by one command a step: the step
\* of add_command appends the handler's command to its tab's list and to
\* the full history, and no other step changes either, but for the load of
\* the file into an empty cache.
HistoryAppendOnly ==
    [][\A th \in Threads :
          /\ (pc[th] = "history" /\ pc'[th] = "_ensure_history_file") =>
                 /\ Appended(th)'
                 /\ Len(_full_history') =
                        1 + Len(IF DOMAIN _history_cache = {} THEN history_file.full_history
                                ELSE _full_history)
                 /\ \A t \in DOMAIN _history_cache :
                        /\ t \in DOMAIN _history_cache'
                        /\ _history_cache'[t] = IF t = req[th].tab_id
                                                 THEN Append(_history_cache[t], req[th].command)
                                                 ELSE _history_cache[t]
          /\ (\A w \in Threads : ~(pc[w] = "history" /\ pc'[w] = "_ensure_history_file")) =>
                 \/ UNCHANGED <<_history_cache, _full_history>>
                 \/ /\ DOMAIN _history_cache = {}
                    /\ _history_cache' = history_file.tabs
                    /\ _full_history' = history_file.full_history
          /\ (pc[th] = "get_history" /\ pc'[th] = "idle" /\ emitted'[th] # <<>>) =>
                 emitted'[th][1].data = TabHistory(_history_cache, req[th].tab_id)]_vars

Stepped(th) == pc'[th] # pc[th] \/ req'[th] # req[th] \/ emitted'[th] # emitted[th]

\* the tab of the event the handler th works on in the step
TabHandled(th) == IF pc[th] = "idle" THEN req'[th].tab_id ELSE req[th].tab_id

\* C3: a step of a handler for tab A leaves the stored directory of every
\* other tab B as it is, whatever the other handlers are doing, and a tab
\* that is stored for the first time starts at the home directory.
C3_TabIsolation ==
    [][/\ TAB_DIRECTORIES' # TAB_DIRECTORIES => \E th \in Threads : Stepped(th)
       /\ \A th \in Threads : Stepped(th) =>
              \A tab_id \in DOMAIN TAB_DIRECTORIES : tab_id # TabHandled(th) =>
                  /\ tab_id \in DOMAIN TAB_DIRECTORIES'
                  /\ TAB_DIRECTORIES'[tab_id] = TAB_DIRECTORIES[tab_id]
       /\ \A tab_id \in DOMAIN TAB_DIRECTORIES' \ DOMAIN TAB_DIRECTORIES :
              TAB_DIRECTORIES'[tab_id] = HOME]_vars

\* two handlers are about to store new directories for two different tabs
C3_Witness ==
    \E th \in Threads : \E other \in Threads \ {th} :
        /\ pc[th] = "finish" /\ pc[other] = "finish"
        /\ req[th].tab_id # req[other].tab_id
        /\ HasNewDir(req[th].result) /\ HasNewDir(req[other].result)
        /\ req[th].result.new_dir # req[other].result.new_dir

\* the command line the handler th passes or has passed to execute_command
Line(th) ==
    IF pc[th] \in {"execute", "finish"} THEN req[th].command ELSE Head(req[th].queue)

\* the first token of the line is cd, in any case
IsCd(line) == Lower(Head(Split(line))) = "cd"

\* the handler th comes back from execute_command in the step
Executes(th) ==
    /\ pc[th] \in {"execute", "nl_execute"}
    /\ pc'[th] \in {"finish", "nl_finish"}

\* C4: execute_command returns a new_dir only for a line whose first token
\* is cd and that succeeds, and None for every other line (unknown
\* commands, lines for the shell, a failing cd); a tab's stored directory
\* changes only when a handler of that tab stores the new_dir of such a cd.
C4_OnlyCdChangesDirectory ==
    [][/\ \A th \in Threads : (Executes(th) /\ req'[th].result.new_dir # None) =>
              /\ IsCd(Line(th))
              /\ req'[th].result.output
                     = "Changed directory to: " \o req'[th].result.new_dir[1]
       /\ \A tab_id \in DOMAIN TAB_DIRECTORIES :
              TAB_DIRECTORIES'[tab_id] # TAB_DIRECTORIES[tab_id] =>
                  \E th \in Threads :
                      /\ pc[th] \in {"finish", "nl_finish"}
                      /\ pc'[th] # pc[th]
                      /\ req[th].tab_id = tab_id
                      /\ IsCd(Line(th))
                      /\ req[th].result.new_dir = Some(TAB_DIRECTORIES'[tab_id])]_vars

\* a cd to a missing directory has failed in a tab that an earlier cd had
\* moved: new_dir is None and the tab is where it was
C4_Witness ==
    \E th \in Threads :
        /\ pc[th] = "finish"
        /\ req[th].command = "cd nosuch"
        /\ req[th].result.new_dir = None
        /\ req[th].current_dir = "/h/a"
        /\ TAB_DIRECTORIES[req[th].tab_id] = "/h/a"

\* the parent of each directory the tabs of the model can be in
ParentDir == ("/h/a" :> "/h") @@ ("/h" :> "/") @@ ("/" :> "/")

\* C10: a successful cd stores the directory it returned for its tab, the
\* next command of the tab starts in the stored directory, and pwd outputs
\* the directory it starts in; cd .. yields the parent (the root from the
\* root), cd without arguments the home directory, and cd . the directory
\* the command started in.
C10_CdThenPwd ==
    [][\A th \in Threads :
          /\ (pc[th] = "finish" /\ pc'[th] = "idle" /\ HasNewDir(req[th].result)) =>
                 TAB_DIRECTORIES'[req[th].tab_id] = req[th].result.new_dir[1]
          /\ (pc[th] = "idle" /\ pc'[th] # "idle"
              /\ req'[th].tab_id \in DOMAIN TAB_DIRECTORIES) =>
                 req'[th].current_dir = TAB_DIRECTORIES[req'[th].tab_id]
          /\ (Executes(th) /\ Lower(Head(Split(Line(th)))) = "pwd") =>
                 req'[th].result.output = req[th].current_dir
          /\ (Executes(th) /\ Line(th) = "cd .." /\ req[th].current_dir \in DOMAIN ParentDir) =>
                 req'[th].result.new_dir = Some(ParentDir[req[th].current_dir])
          /\ (Executes(th) /\ Line(th) = "cd") =>
                 req'[th].result.new_dir = Some(HOME)
          /\ (Executes(th) /\ Lower(Line(th)) = "cd .") =>
                 req'[th].result.new_dir = Some(req[th].current_dir)]_vars

\* a pwd has answered with the directory an earlier cd of its tab returned
C10_Witness ==
    \E th \in Threads :
        /\ pc[th] = "finish"
        /\ req[th].command = "pwd"
        /\ req[th].result.output = "/h/a"
        /\ TAB_DIRECTORIES[req[th].tab_id] = "/h/a"

\* the path of the line 'cd <name>' run by the handler th, for a relative
\* name of one component
CdTarget(th) == req[th].current_dir \o "/" \o Split(Line(th))[2]

\* the handler th comes back from a cd to a name that is no special path
CdToName(th) ==
    /\ Executes(th)
    /\ IsCd(Line(th))
    /\ Len(Split(Line(th))) = 2
    /\ Split(Line(th))[2] \in {"a", "f", "nosuch"}

\* the handler th leaves its finish step
Finishes(th) == pc[th] \in {"finish", "nl_finish"} /\ pc'[th] # pc[th]

\* C11: a cd to a path that does not exist has the output '... No such
\* file or directory', a cd to a path that exists and is no directory the
\* output '... Not a directory'; both return new_dir None, and the tab's
\* stored directory is after the command what it was before.
C11_CdFailureCauses ==
    [][\A th \in Threads :
          /\ (CdToName(th) /\ CdTarget(th) \notin dirs /\ CdTarget(th) \notin DOMAIN files) =>
                 /\ req'[th].result.output = "Error executing command: cd: "
                        \o Split(Line(th))[2] \o ": No such file or directory"
                 /\ req'[th].result.new_dir = None
                 /\ TAB_DIRECTORIES' = TAB_DIRECTORIES
          /\ (CdToName(th) /\ CdTarget(th) \in DOMAIN files) =>
                 /\ req'[th].result.output = "Error executing command: cd: "
                        \o Split(Line(th))[2] \o ": Not a directory"
                 /\ req'[th].result.new_dir = None
                 /\ TAB_DIRECTORIES' = TAB_DIRECTORIES
          /\ (Finishes(th) /\ req[th].result.new_dir = None) =>
                 TAB_DIRECTORIES' = TAB_DIRECTORIES]_vars

\* a cd to a file has failed as 'Not a directory' in a tab that is stored
C11_Witness ==
    \E th \in Threads :
        /\ pc[th] = "finish"
        /\ req[th].command = "cd f"
        /\ req[th].result.output = "Error executing command: cd: f: Not a directory"
        /\ req[th].result.new_dir = None
        /\ TAB_DIRECTORIES[req[th].tab_id] = "/h"

-----------------------------------------------------------------------------
(* The properties of a natural-language request, checked under             *)
(* SpecRequests.                                                           *)

\* the command lines the interpreter returns for the requests
RequestCommands ==
    ("cd to a" :> <<"cd a">>) @@ ("go back" :> <<"cd ..">>) @@ ("where am i" :> <<"pwd">>)
    @@ ("move all txt files to folder d"
          :> <<"mkdir d", "find . -maxdepth 1 -name \"*.txt\" -exec mv {} d/ \\;">>)

\* the events of the handler th's result: its output, and the change of
\* directory if the result has a new directory
ResultEvents(th) ==
    IF HasNewDir(req[th].result)
    THEN <<Output(req[th].result.output, req[th].tab_id),
           DirectoryChange(req[th].result.new_dir[1], req[th].tab_id)>>
    ELSE <<Output(req[th].result.output, req[th].tab_id)>>

\* the step of th ran the first of the commands it has left as
\* execute_command runs it in the handler's current directory
RanHead(th) ==
    \E sh \in ShellOutcomes :
        /\ req'[th].result.output
               = execute_command(Head(req[th].queue), req[th].current_dir, dirs, files, sh).output
        /\ req'[th].result.new_dir
               = execute_command(Head(req[th].queue), req[th].current_dir, dirs, files, sh).new_dir
        /\ dirs' = execute_command(Head(req[th].queue), req[th].current_dir, dirs, files, sh).dirs
        /\ files' = execute_command(Head(req[th].queue), req[th].current_dir, dirs, files, sh).files

\* C20: the lines interpret returned for a natural-language request are
\* executed one at a time in the order of the list; a line runs in the
\* working directory the lines before it have left, and a change of
\* directory is stored for the tab and announced by a directory_change
\* event, after the line's output, before the next line runs.
C20_LinesInOrder ==
    [][\A th \in Threads :
          /\ (pc[th] = "interpret" /\ pc'[th] # "interpret") =>
                 /\ pc'[th] = "nl_execute"
                 /\ req'[th].queue = RequestCommands[NlText(req[th].command)]
                 /\ req'[th].current_dir = req[th].current_dir
          /\ (pc[th] = "nl_execute" /\ pc'[th] # "nl_execute") =>
                 /\ pc'[th] = "nl_finish"
                 /\ RanHead(th)
                 /\ req'[th].queue = req[th].queue
                 /\ req'[th].current_dir = req[th].current_dir
                 /\ TAB_DIRECTORIES' = TAB_DIRECTORIES
                 /\ emitted' = emitted
          /\ (pc[th] = "nl_finish" /\ pc'[th] # "nl_finish") =>
                 /\ emitted'[th] = emitted[th] \o ResultEvents(th)
                 /\ HasNewDir(req[th].result) =>
                        TAB_DIRECTORIES'[req[th].tab_id] = req[th].result.new_dir[1]
                 /\ ~HasNewDir(req[th].result) => TAB_DIRECTORIES' = TAB_DIRECTORIES
                 /\ pc'[th] = (IF Len(req[th].queue) = 1 THEN "idle" ELSE "nl_execute")
                 /\ pc'[th] = "nl_execute" =>
                        /\ req'[th].queue = Tail(req[th].queue)
                        /\ req'[th].current_dir =
                               IF HasNewDir(req[th].result) THEN req[th].result.new_dir[1]
                               ELSE req[th].current_dir]_vars

\* a handler has run the first line of a request of two lines, in the
\* directory an earlier request of its tab changed to, and is about to run
\* the second line there
C20_Witness ==
    \E th \in Threads :
        /\ pc[th] = "nl_execute"
        /\ Len(RequestCommands[NlText(req[th].command)]) = 2
        /\ req[th].queue = Tail(RequestCommands[NlText(req[th].command)])
        /\ req[th].current_dir = "/h/a"
        /\ TAB_DIRECTORIES[req[th].tab_id] = "/h/a"
        /\ "/h/a/d" \in dirs
        /\ Len(emitted[th]) = 2

-----------------------------------------------------------------------------
(* The properties of execute_command, checked under SpecDispatch.          *)

\* execute_command has returned from the call
HasReturned == call.fn = "execute_command" /\ call.returned

\* the command line holds a substring of the denylist, in any case
Denylisted(command) ==
    \E s \in {"rm -rf /", "rm -rf /*", "dd", "mkfs", "format"} : Contains(Lower(command), s)

\* C5: a command line that comes to the shell fallback and holds a
\* substring of the denylist is not passed to the shell: no subprocess is
\* started and the output is the 'blocked for safety reasons' error.
C5_DenylistBlocksShell ==
    (HasReturned /\ call.result.branch \in {"shell", "blocked"} /\ Denylisted(call.command)) =>
        /\ call.result.popen = <<>>
        /\ popen = {}
        /\ call.result.output = "Error: Potentially dangerous command '" \o call.command
                                \o "' blocked for safety reasons."

\* a denylisted line in upper case has been blocked
C5_Witness ==
    /\ HasReturned
    /\ call.command = "DD if=x"
    /\ call.result.branch = "blocked"
    /\ popen = {}

\* C8: execute_command raises nothing: it returns a result whose output is
\* a string, and an exception of a built-in handler (cd to a missing path,
\* cp with flags only) is the output 'Error executing command: <message>'
\* with new_dir None.
C8_NeverRaises ==
    HasReturned =>
        /\ ~call.result.raised
        /\ call.result.output \in STRING
        /\ call.result.exc # "" =>
               /\ call.result.output = "Error executing command: " \o call.result.exc
               /\ call.result.new_dir = None
        /\ (call.command = "cd nosuch" /\ call.current_dir = "/h") =>
               call.result.exc = "cd: nosuch: No such file or directory"
        /\ call.command = "cp -r -R" => call.result.exc # ""

\* cp with flags only has raised in its handler and the call has returned
C8_Witness ==
    /\ HasReturned
    /\ call.command = "cp -r -R"
    /\ call.result.exc # ""
    /\ call.result.output = "Error executing command: " \o call.result.exc

\* C9: a command line whose first token is a name of AVAILABLE_COMMANDS
\* runs that command's handler: it is neither reported as 'not found' nor
\* handed to the shell fallback.
C9_EveryNameDispatches ==
    (HasReturned /\ Strip(call.command) # ""
     /\ Lower(Head(Split(call.command))) \in AVAILABLE_COMMANDS) =>
        /\ call.result.branch \notin {"not found", "shell", "blocked"}
        /\ ~StartsWith(call.result.output,
                       "Command '" \o Lower(Head(Split(call.command))) \o "' not found")

\* what execute_command returns and leaves for the line, called as the call
\* of the state was called
Plain(line) ==
    execute_command(line, call.current_dir, InitDirs, InitFiles,
                    CHOOSE sh \in ShellOutcomes : sh.kind = "timeout")

\* C17: an argument that begins with a dash and that no built-in knows
\* changes nothing of what a built-in with operands does: the line with the
\* argument has the output, the new directory and the effect on the file
\* system of the line without it, and the argument is not taken as a path
\* or a pattern.
C17_UnknownFlagIgnored ==
    (HasReturned /\ call.command \in DOMAIN FlagLines) =>
        /\ call.result.output = Plain(FlagLines[call.command]).output
        /\ call.result.new_dir = Plain(FlagLines[call.command]).new_dir
        /\ dirs = Plain(FlagLines[call.command]).dirs
        /\ files = Plain(FlagLines[call.command]).files

\* C18: for a command line whose command is ls, pwd, help or echo, the
\* output execute_command returns is not the empty string, whatever the
\* arguments are.
C18_FeedbackNeverEmpty ==
    (HasReturned /\ Strip(call.command) # ""
     /\ Lower(Head(Split(call.command))) \in {"ls", "pwd", "help", "echo"}) =>
        call.result.output # ""

\* the command names that execute_command has a branch for
Handled ==
    {"ls", "cd", "pwd", "mkdir", "rmdir", "rm", "cp", "mv", "cat", "echo", "touch", "grep",
     "find", "ps", "top", "clear", "test", "help", "exit", "cpu", "memory", "processes"}

\* C27: the denylist is asked on the shell fallback alone: a command line
\* that holds a substring of the denylist and whose first token is a
\* built-in with a branch runs that built-in, so that 'rm -rf /' removes
\* recursively everything below '/', and -rf on a missing path is silent.
C27_BuiltinsSkipDenylist ==
    (HasReturned /\ Denylisted(call.command)
     /\ Lower(Head(Split(call.command))) \in Handled) =>
        /\ call.result.branch = Lower(Head(Split(call.command)))
        /\ call.result.popen = <<>>
        /\ ~StartsWith(call.result.output, "Error: Potentially dangerous command")
        /\ call.command = "rm -rf /" =>
               /\ dirs = {"/"}
               /\ files = EmptyMap
               /\ StartsWith(call.result.output, "rm: error removing '/': ")
        /\ call.command = "rm -rf /h/a" =>
               /\ dirs = InitDirs \ {"/h/a"}
               /\ call.result.output = "Removed directory: /h/a"
        /\ call.command = "rm -rf /nosuch" =>
               /\ dirs = InitDirs
               /\ call.result.output = ""
        /\ call.command = "echo format c:" => call.result.output = "format c:"

\* 'rm -rf /' has run as the built-in rm and has emptied the file system
C27_Witness ==
    /\ HasReturned
    /\ call.command = "rm -rf /"
    /\ call.result.branch = "rm"
    /\ dirs = {"/"}
    /\ files = EmptyMap

-----------------------------------------------------------------------------
(* The properties of the built-ins that act on files, checked under        *)
(* SpecLines. In a step the line run is call'.line, on the file system     *)
(* (dirs, files), and its output is call'.output.                          *)

\* the step runs the line
Runs(line) == call.fn = "lines" /\ call'.count = call.count + 1 /\ call'.line = line

\* C21: mkdir x in a directory where x is a directory already reports
\* 'File exists' and leaves the directory and what it holds as they were.
C21_MkdirTwice ==
    [][(Runs("mkdir x") /\ "/h/x" \in dirs) =>
          /\ call'.output = "mkdir: cannot create directory 'x': File exists"
          /\ dirs' = dirs
          /\ files' = files]_vars

\* the second mkdir x has run on a directory x that holds a file
C21_Witness ==
    /\ call.fn = "lines"
    /\ call.line = "mkdir x"
    /\ call.output = "mkdir: cannot create directory 'x': File exists"
    /\ "/h/x" \in dirs
    /\ "/h/x/y" \in DOMAIN files

\* the path is neither a directory nor a file
Absent(path) == path \notin dirs /\ path \notin DOMAIN files

\* the step leaves the file system as it is
SameFs == dirs' = dirs /\ files' = files

\* C22: rm of a path that does not exist gives no output line when -f or
\* -rf is given and a 'No such file or directory' line otherwise; rm of a
\* directory without -r or -rf reports 'Is a directory' and removes nothing.
C22_RmReports ==
    [][/\ (Runs("rm -f nosuch") \/ Runs("rm -rf nosuch")) =>
              call'.output = "" /\ SameFs
       /\ Runs("rm nosuch") =>
              /\ call'.output = "rm: cannot remove 'nosuch': No such file or directory"
              /\ SameFs
       /\ ((Runs("rm a") \/ Runs("rm -f a")) /\ "/h/a" \in dirs) =>
              call'.output = "rm: cannot remove 'a': Is a directory" /\ SameFs
       /\ (Runs("rm a") /\ Absent("/h/a")) =>
              /\ call'.output = "rm: cannot remove 'a': No such file or directory"
              /\ SameFs
       /\ (Runs("rm -f a") /\ Absent("/h/a")) =>
              call'.output = "" /\ SameFs]_vars

\* rm -f has run on a path that a line before it removed, without a line
C22_Witness ==
    /\ call.fn = "lines"
    /\ call.line = "rm -f a"
    /\ call.output = ""
    /\ Absent("/h/a")

\* C23: mkdir, rm, touch and cat with two operands of which the first
\* fails give the error line of the first and then create, remove, touch
\* or read the second.
C23_BatchGoesOn ==
    [][/\ (Runs("mkdir a x") /\ "/h/a" \in dirs /\ Absent("/h/x")) =>
              /\ call'.output = "mkdir: cannot create directory 'a': File exists\n"
                                    \o "Directory created: /h/x"
              /\ dirs' = dirs \union {"/h/x"}
       /\ (Runs("rm nosuch f") /\ "/h/f" \in DOMAIN files) =>
              /\ call'.output = "rm: cannot remove 'nosuch': No such file or directory\n"
                                    \o "Removed file: /h/f"
              /\ "/h/f" \notin DOMAIN files'
       /\ (Runs("touch a t") /\ "/h/a" \in dirs /\ Absent("/h/t")) =>
              /\ call'.output = "touch: cannot touch 'a': [Errno 21] Is a directory: '/h/a'\n"
                                    \o "Touched file: /h/t"
              /\ "/h/t" \in DOMAIN files'
       /\ (Runs("cat nosuch f") /\ "/h/f" \in DOMAIN files) =>
              call'.output = "cat: nosuch: No such file or directory\n" \o files["/h/f"]]_vars

\* rm has removed its second operand after its first was missing
C23_Witness ==
    /\ call.fn = "lines"
    /\ call.line = "rm nosuch f"
    /\ call.output = "rm: cannot remove 'nosuch': No such file or directory\nRemoved file: /h/f"
    /\ "/h/f" \notin DOMAIN files

\* C24: touch of a file that does not exist makes it empty, so that cat of
\* it is the empty string; touch of a file that exists leaves its content,
\* so that cat of it is the same text before and after.
C24_TouchKeepsContent ==
    [][/\ (Runs("touch t") /\ Absent("/h/t")) =>
              /\ "/h/t" \in DOMAIN files' /\ files'["/h/t"] = ""
              /\ \A f \in DOMAIN files : f \in DOMAIN files' /\ files'[f] = files[f]
       /\ (Runs("cat t") /\ "/h/t" \in DOMAIN files) => call'.output = ""
       /\ (Runs("touch f") /\ "/h/f" \in DOMAIN files) =>
              call'.output = "Touched file: /h/f" /\ SameFs
       /\ (Runs("touch t") /\ "/h/t" \in DOMAIN files) =>
              call'.output = "Touched file: /h/t" /\ SameFs
       /\ (Runs("cat f") /\ "/h/f" \in DOMAIN files) =>
              call'.output = files["/h/f"] /\ SameFs]_vars

\* cat has read, as the empty string, the file t that a touch made
C24_Witness ==
    /\ call.fn = "lines"
    /\ call.line = "cat t"
    /\ call.output = ""
    /\ "/h/t" \in DOMAIN files
    /\ files["/h/t"] = ""

\* C30: mkdir makes the missing directories above its operand with and
\* without -p; with -p an operand that is a directory already is reported
\* as created, without -p as 'File exists', and an operand that is a file
\* is 'File exists' either way.
C30_MkdirParents ==
    [][/\ ((Runs("mkdir p/q") \/ Runs("mkdir -p p/q")) /\ Absent("/h/p")) =>
              /\ call'.output = "Directory created: /h/p/q"
              /\ dirs' = dirs \union {"/h/p", "/h/p/q"}
       /\ (Runs("mkdir p/q") /\ "/h/p/q" \in dirs) =>
              call'.output = "mkdir: cannot create directory 'p/q': File exists" /\ SameFs
       /\ (Runs("mkdir -p p/q") /\ "/h/p/q" \in dirs) =>
              call'.output = "Directory created: /h/p/q" /\ SameFs
       /\ (Runs("mkdir -p x") /\ "/h/x" \in dirs) =>
              call'.output = "Directory created: /h/x" /\ SameFs
       /\ ((Runs("mkdir f") \/ Runs("mkdir -p f")) /\ "/h/f" \in DOMAIN files) =>
              call'.output = "mkdir: cannot create directory 'f': File exists" /\ SameFs]_vars

\* mkdir without -p has made a directory and the missing one above it
C30_Witness ==
    /\ call.fn = "lines"
    /\ call.count = 1
    /\ call.line = "mkdir p/q"
    /\ call.output = "Directory created: /h/p/q"
    /\ {"/h/p", "/h/p/q"} \subseteq dirs

-----------------------------------------------------------------------------
(* The property of get_autocomplete_suggestions, checked under             *)
(* SpecComplete.                                                           *)

\* the list is in ascending order without repetitions
IsSorted(seq) == \A i \in 1..(Len(seq) - 1) : StrLess(seq[i], seq[i + 1])

\* the list holds the members of S, each once
Holds(seq, S) == Len(seq) = Cardinality(S) /\ {seq[i] : i \in DOMAIN seq} = S

\* the built-in names that start with the prefix
PrefixNames(prefix) == {cmd \in AVAILABLE_COMMANDS : StartsWith(cmd, prefix)}

\* difflib's matches, sorted, for the single tokens that start no name
SimilarNames ==
    [token \in {"lss", "gerp", "sl", "mkdri", "histroy", "xyz", "q"} |->
        CASE token = "lss" -> <<"ls">>
          [] token = "gerp" -> <<"grep", "help">>
          [] token = "sl" -> <<"ls", "ps">>
          [] token = "mkdri" -> <<"dir", "mkdir">>
          [] token = "histroy" -> <<"history">>
          [] OTHER -> <<>>]

\* the suggestions for the single token
ForToken(suggestions, token) ==
    IF PrefixNames(token) # {} THEN Holds(suggestions, PrefixNames(token))
    ELSE token \in DOMAIN SimilarNames /\ suggestions = SimilarNames[token]

\* C25: get_autocomplete_suggestions returns a sorted list: every built-in
\* name for an empty input, for one token the built-in names with that
\* prefix in lower case and only if there are none the similar names, and
\* the empty list when the directory cannot be listed.
C25_Suggestions ==
    (call.fn = "get_autocomplete_suggestions" /\ call.returned) =>
        /\ IsSorted(call.suggestions)
        /\ Strip(call.partial_command) = "" => Holds(call.suggestions, AVAILABLE_COMMANDS)
        /\ Len(Split(call.partial_command)) = 1 =>
               ForToken(call.suggestions, Lower(Split(call.partial_command)[1]))
        /\ call.listdir # "" => call.suggestions = <<>>

\* the similar names have been returned, sorted, for a token that starts
\* no built-in name
C25_Witness ==
    /\ call.fn = "get_autocomplete_suggestions"
    /\ call.returned
    /\ call.partial_command = "mkdri"
    /\ call.suggestions = <<"dir", "mkdir">>

-----------------------------------------------------------------------------
(* The properties of the natural-language branch, checked under SpecNL.    *)

\* C6: a natural-language text that holds 'rm -rf /' never leads, through
\* interpret and execute_command on each line it returns, to a removal:
\* the file system stays as it was.
C6_NoRecursiveRemoval ==
    (call.fn = "interpret" /\ Contains(Lower(call.text), "rm -rf /")) =>
        /\ InitDirs \subseteq dirs
        /\ files = InitFiles

\* interpret has returned from the call
HasInterpreted == call.fn = "interpret" /\ call.returned

\* the text as interpret matches it: stripped and in lower case
Normalized == Lower(Strip(call.text))

\* the places in the order of the table of the patterns that match the text
\* at its start
Matching(text) == {i \in 1..Len(TableOrder) : re_match(TableOrder[i].pattern, text) # None}

\* the rule of the first pattern in the order of the table that matches
FirstRule(text) ==
    TableOrder[CHOOSE i \in Matching(text) : \A j \in Matching(text) : i <= j].rule

\* C12: when a pattern matches the normalized text at its start, interpret
\* returns the output of the first such pattern in the order of the table,
\* not that of a later rule: a template rule gives one line that begins as
\* the rule's template begins, 'create file example.txt' gives
\* 'touch example.txt', 'delete all txt files' the rm of the earlier rule,
\* and a text that holds a pattern's words after its start matches nothing.
C12_FirstPatternWins ==
    HasInterpreted =>
        /\ (Normalized # "" /\ Matching(Normalized) # {}
             /\ COMMAND_PATTERNS[FirstRule(Normalized)].generator = "") =>
                /\ Len(call.interpreted) = 1
                /\ Head(Split(call.interpreted[1]))
                       = Head(Split(COMMAND_PATTERNS[FirstRule(Normalized)].command))
        /\ (Normalized # "" /\ Matching(Normalized) # {}
             /\ COMMAND_PATTERNS[FirstRule(Normalized)].generator # "") =>
                \E i \in Matching(Normalized) :
                    /\ TableOrder[i].rule = FirstRule(Normalized)
                    /\ call.interpreted
                           = Generate(COMMAND_PATTERNS[FirstRule(Normalized)].generator,
                                      re_match(TableOrder[i].pattern, Normalized)[1])
        /\ call.text = "create file example.txt" => call.interpreted = <<"touch example.txt">>
        /\ call.text = "delete all txt files" => call.interpreted = <<"rm all">>
        /\ call.text = "please create file x" =>
               /\ Matching(Normalized) = {}
               /\ StartsWith(call.interpreted[1], "echo 'Command not understood.")

\* interpret has returned for a text that patterns of two rules match
C12_Witness ==
    /\ HasInterpreted
    /\ call.text = "delete all txt files"
    /\ \E i, j \in Matching(Normalized) : TableOrder[i].rule # TableOrder[j].rule
    /\ call.interpreted = <<"rm all">>

\* C13: interpret('delete all txt files') returns the result of the
\* generator rule: one find command that deletes the files named '*.txt'.
C13_DeleteByType ==
    (HasInterpreted /\ call.text = "delete all txt files") =>
        call.interpreted = <<"find . -name \"*.txt\" -delete">>

\* C14: interpret('list files') returns one ls command line without the
\* placeholder of the directory: no '{dirname}' and no brace is in it.
C14_ListFiles ==
    (HasInterpreted /\ call.text = "list files") =>
        /\ Len(call.interpreted) = 1
        /\ Head(Split(call.interpreted[1])) = "ls"
        /\ ~Contains(call.interpreted[1], "{")
        /\ ~Contains(call.interpreted[1], "}")

\* C28: interpret('create folder logs and move all txt files into it')
\* returns the two commands of the generator rule in order: 'mkdir logs',
\* then the find command that moves the '*.txt' files into logs/.
C28_CreateAndMove ==
    (HasInterpreted /\ call.text = "create folder logs and move all txt files into it") =>
        call.interpreted =
            <<"mkdir logs", "find . -maxdepth 1 -name \"*.txt\" -exec mv {} logs/ \\;">>

\* the texts of the rule that counts files
CountTexts ==
    {"count files in directory", "count files in directory docs",
     "count the number of files in the folder"}

\* C29: the command generated for a text of the rule that counts files
\* lists '.' when the text names no directory and the directory when it
\* names one, and never holds the text 'None'.
C29_CountFiles ==
    (HasInterpreted /\ call.text \in CountTexts) =>
        /\ call.interpreted =
               IF call.text = "count files in directory docs"
               THEN <<"ls -1 docs | wc -l">> ELSE <<"ls -1 . | wc -l">>
        /\ \A i \in DOMAIN call.interpreted : ~Contains(call.interpreted[i], "None")

\* the text begins with the prefix of a direct command
IsDirect(text) == StartsWith(text, "run ") \/ StartsWith(text, "execute ")

\* the text after its first space
AfterPrefix(text) == SubSeq(text, Find(text, " ") + 1, Len(text))

\* C15: interpret returns a list of at least one command line, each a
\* string, for every text: 'help' alone for an empty or blank text, and
\* otherwise the result of a rule, the rest of a direct command, the safety
\* echo or a 'not understood' echo.
C15_NeverEmpty ==
    HasInterpreted =>
        /\ call.interpreted # <<>>
        /\ \A i \in 1..Len(call.interpreted) :
               call.interpreted[i] \in STRING /\ call.interpreted[i] # ""
        /\ Strip(call.text) = "" => call.interpreted = <<"help">>
        /\ Strip(call.text) # "" =>
               \/ Matching(Normalized) # {}
               \/ IsDirect(Normalized) /\ call.interpreted = <<AfterPrefix(Normalized)>>
               \/ call.interpreted = <<BlockedEcho>>
               \/ /\ Len(call.interpreted) = 1
                  /\ StartsWith(call.interpreted[1], "echo 'Command not understood. ")

\* interpret has returned 'help' for a text of blanks
C15_Witness ==
    /\ HasInterpreted
    /\ call.text = "  "
    /\ call.interpreted = <<"help">>

\* C16: when no pattern matches and the text begins with 'run ' or
\* 'execute ', interpret returns one command line, the rest of the user's
\* text after the prefix with every character as the user wrote it.
C16_DirectVerbatim ==
    (HasInterpreted /\ Matching(Normalized) = {} /\ IsDirect(Strip(call.text))) =>
        call.interpreted = <<AfterPrefix(Strip(call.text))>>

\* C7: for a text that holds a dangerous phrase once it is stripped and in
\* lower case, interpret returns the safety echo alone, whether or not a
\* pattern matches the text.
C7_DangerousPhraseBlocked ==
    (/\ call.fn = "interpret"
     /\ call.returned
     /\ \E i \in 1..Len(dangerous_phrases) :
            Contains(Lower(Strip(call.text)), dangerous_phrases[i])) =>
        call.interpreted = <<BlockedEcho>>

====
